---- MODULE Spec2Model ----
(***************************************************************************)
(* State-machine model of the fluent query builder (src/src/query-builder.ts *)
(* with the guards of src/src/validation.ts).                              *)
(*                                                                         *)
(* JavaScript values are tagged records (field t is the type tag).  An     *)
(* object key that is absent and a key whose value is undefined are the    *)
(* same value Undef: the builder only reads the live document through      *)
(* property access and JSON.stringify, and neither tells them apart.       *)
(*                                                                         *)
(* Objects created by the builder are held by value.  Objects created by   *)
(* the caller and handed in by reference (setQuery, raw) live in the heap  *)
(* ext and are held as [t |-> "ref", k |-> address], so that every holder  *)
(* of the same caller object sees every write to it.                       *)
(***************************************************************************)
EXTENDS Integers, Sequences, FiniteSets, TLC

VARIABLES
    alive,   \* the builders that have been constructed
    docs,    \* docs[b]: the private field `query` of builder b (the live document)
    ext,     \* the caller-owned query objects, by address
    last,    \* the call that was made last: builder, method, arguments, outcome
    touched, \* the builders on which a method other than build() has been called
    origin,  \* origin[b]: "constructor", or the builder that b is a clone of
    budget,  \* number of calls the exploration may still make
    client   \* the SearchClient: its configuration, state, listeners and search() calls

vars == <<alive, docs, ext, last, touched, origin, budget, client>>

\* No SearchClient has been constructed
NoClient == [t |-> "none"]

----------------------------------------------------------------------------
(* Bounds of the exploration *)

MaxSteps == 3
MaxShareSteps == 4
MaxOpsSteps == 2
MaxMergeSteps == 3
MaxEscapeSteps == 3
MaxDocSteps == 3
MaxScoreSteps == 3
MaxAdviceSteps == 3
MaxComplexitySteps == 3

----------------------------------------------------------------------------
(* JavaScript values *)

Undef == [t |-> "undefined"]
Null == [t |-> "null"]
Str(s) == [t |-> "string", v |-> s]
Num(n, d) == [t |-> "number", n |-> n, d |-> d]
Whole(n) == Num(n, 1)
Bool(b) == [t |-> "boolean", v |-> b]
Arr(s) == [t |-> "array", v |-> s]
Ref(k) == [t |-> "ref", k |-> k]

\* !x
Falsy(x) ==
    \/ x.t \in {"undefined", "null"}
    \/ (x.t = "string" /\ x.v = <<>>)
    \/ (x.t = "number" /\ x.n = 0)
    \/ (x.t = "boolean" /\ ~x.v)

\* Number.isInteger(x)
IsInteger(x) == x.t = "number" /\ x.n % x.d = 0

\* x < k and x > k for a number x and an integer k
LessThan(x, k) == x.n < k * x.d
GreaterThan(x, k) == x.n > k * x.d

\* String.prototype.trim on a string held as a sequence of characters
RECURSIVE TrimStart(_)
TrimStart(s) ==
    IF s # <<>> /\ Head(s) = " " THEN TrimStart(Tail(s)) ELSE s

RECURSIVE TrimEnd(_)
TrimEnd(s) ==
    IF s # <<>> /\ s[Len(s)] = " " THEN TrimEnd(SubSeq(s, 1, Len(s) - 1)) ELSE s

Trim(s) == TrimEnd(TrimStart(s))

\* String.prototype.endsWith
EndsWith(s, suffix) ==
    /\ Len(s) >= Len(suffix)
    /\ SubSeq(s, Len(s) - Len(suffix) + 1, Len(s)) = suffix

----------------------------------------------------------------------------
(* Errors: the constructor name of what is thrown, NoError when nothing is *)

NoError == "none"
ValidationError == "ValidationError"
GenericError == "Error"
TypeError == "TypeError"

----------------------------------------------------------------------------
(* validation.ts *)

MaxSize == 10000

\* A field-name guard that does not trim
validateFieldNameUntrimmed(field) ==
    IF Falsy(field) \/ field.t # "string" THEN ValidationError ELSE NoError

validateFieldName(field) ==
    IF Falsy(field) \/ field.t # "string" THEN ValidationError
    ELSE IF Len(Trim(field.v)) = 0 THEN ValidationError
    ELSE NoError

validateQueryValue(value) ==
    IF value.t \in {"null", "undefined"} THEN ValidationError
    ELSE IF value.t = "string" /\ Len(Trim(value.v)) = 0 THEN ValidationError
    ELSE NoError

validatePaginationParams(from, size) ==
    IF from.t # "undefined" /\ (~IsInteger(from) \/ LessThan(from, 0))
    THEN ValidationError
    ELSE IF size.t # "undefined" /\ (~IsInteger(size) \/ LessThan(size, 0))
    THEN ValidationError
    ELSE IF size.t # "undefined" /\ GreaterThan(size, MaxSize)
    THEN ValidationError
    ELSE NoError

validateSortOrder(order) ==
    IF order = Str(<<"a", "s", "c">>) \/ order = Str(<<"d", "e", "s", "c">>)
    THEN NoError
    ELSE ValidationError

validateAggregationName(name) ==
    IF Falsy(name) \/ name.t # "string" THEN ValidationError
    ELSE IF Len(Trim(name.v)) = 0 THEN ValidationError
    ELSE NoError

\* The keys of the first elements of an array
IndexKeys == <<"0", "1", "2", "3">>

\* Object.keys(x) of a plain object (its v maps each own key to its value) or
\* of an array (its indices)
ObjectKeys(x) ==
    IF x.t = "array" THEN {IndexKeys[i] : i \in 1..Len(x.v)} ELSE DOMAIN x.v

\* x.<key> !== undefined
Defines(x, key) ==
    x.t = "object" /\ key \in DOMAIN x.v /\ x.v[key].t # "undefined"

RangeKeys == {"gte", "gt", "lte", "lt", "boost"}

\* A range guard without the check for contradictory bounds
validateRangeQueryAnyBounds(range) ==
    IF Falsy(range) \/ range.t \notin {"object", "array"} THEN ValidationError
    ELSE IF ObjectKeys(range) = {} THEN ValidationError
    ELSE IF ObjectKeys(range) \ RangeKeys # {} THEN ValidationError
    ELSE NoError

validateRangeQuery(range) ==
    IF Falsy(range) \/ range.t \notin {"object", "array"} THEN ValidationError
    ELSE IF ObjectKeys(range) = {} THEN ValidationError
    ELSE IF ObjectKeys(range) \ RangeKeys # {} THEN ValidationError
    ELSE IF \/ Defines(range, "gte") /\ Defines(range, "gt")
            \/ Defines(range, "lte") /\ Defines(range, "lt")
    THEN ValidationError
    ELSE NoError

validateArray(arr, minLength) ==
    IF arr.t # "array" THEN ValidationError
    ELSE IF Len(arr.v) < minLength THEN ValidationError
    ELSE NoError

validateStringArray(arr) ==
    IF validateArray(arr, 1) # NoError THEN ValidationError
    ELSE IF \E i \in 1..Len(arr.v) :
                ~(arr.v[i].t = "string" /\ Len(Trim(arr.v[i].v)) > 0)
    THEN ValidationError
    ELSE NoError

\* best_fields, most_fields, cross_fields, phrase, phrase_prefix, bool_prefix
MultiMatchTypes ==
    { <<"b", "e", "s", "t", "_", "f", "i", "e", "l", "d", "s">>,
      <<"m", "o", "s", "t", "_", "f", "i", "e", "l", "d", "s">>,
      <<"c", "r", "o", "s", "s", "_", "f", "i", "e", "l", "d", "s">>,
      <<"p", "h", "r", "a", "s", "e">>,
      <<"p", "h", "r", "a", "s", "e", "_", "p", "r", "e", "f", "i", "x">>,
      <<"b", "o", "o", "l", "_", "p", "r", "e", "f", "i", "x">> }

validateMultiMatchType(type) ==
    IF type.t # "undefined" /\ ~(type.t = "string" /\ type.v \in MultiMatchTypes)
    THEN ValidationError
    ELSE NoError

----------------------------------------------------------------------------
(* The document model *)

Sections == {"must", "filter", "should", "must_not"}
BoolKeys == Sections \cup {"minimum_should_match"}

\* { must: [], filter: [], should: [], must_not: [] }
EmptyBool ==
    [t |-> "object", must |-> Arr(<<>>), filter |-> Arr(<<>>),
     should |-> Arr(<<>>), must_not |-> Arr(<<>>),
     minimum_should_match |-> Undef]

\* A query object: its bool key and the one other (named) key it may have
QueryObject(named, bool) == [t |-> "object", named |-> named, bool |-> bool]

\* {}
EmptyObject == QueryObject(Undef, Undef)

\* { match_all: {} }
MatchAll == QueryObject([t |-> "match_all"], Undef)

\* The field initializer of QueryBuilder.query (also what reset() installs)
NewDocument ==
    [from |-> Undef, size |-> Undef,
     query |-> QueryObject(Undef, EmptyBool),
     sort |-> Undef, source |-> Undef, aggs |-> Undef, highlight |-> Undef,
     track_total_hits |-> Undef, explain |-> Undef, profile |-> Undef]

\* What a call leaves behind: the live document, the caller's objects, the error
Return(doc, heap) == [doc |-> doc, ext |-> heap, err |-> NoError]
Throw(doc, heap, e) == [doc |-> doc, ext |-> heap, err |-> e]

\* return this, after the writes that left the document and the heap as w says
Done(w) == Return(w.doc, w.ext)

\* this.query.query, followed through a reference to a caller-owned object
QueryOf(doc, heap) ==
    IF doc.query.t = "ref" THEN heap[doc.query.k] ELSE doc.query

\* A write to this.query.query.<key>: it lands in the object that is referenced
StoreQuery(doc, heap, q) ==
    IF doc.query.t = "ref"
    THEN [doc |-> doc, ext |-> [heap EXCEPT ![doc.query.k] = q]]
    ELSE [doc |-> [doc EXCEPT !.query = q], ext |-> heap]

\* An ensureBoolQuery that, where the query has no bool, starts a query that
\* has the bool alone
ensureBoolQueryAlone(doc, heap) ==
    LET d1 == IF Falsy(doc.query) THEN [doc EXCEPT !.query = EmptyObject] ELSE doc
        q1 == QueryOf(d1, heap)
        q2 == IF Falsy(q1.bool) THEN QueryObject(Undef, EmptyBool) ELSE q1
        Fill(b, s) == IF Falsy(b[s]) THEN [b EXCEPT ![s] = Arr(<<>>)] ELSE b
        b4 == Fill(Fill(Fill(Fill(q2.bool, "must"), "filter"), "should"), "must_not")
    IN StoreQuery(d1, heap, [q2 EXCEPT !.bool = b4])

ensureBoolQuery(doc, heap) ==
    LET d1 == IF Falsy(doc.query) THEN [doc EXCEPT !.query = EmptyObject] ELSE doc
        q1 == QueryOf(d1, heap)
        q2 == IF Falsy(q1.bool) THEN [q1 EXCEPT !.bool = EmptyBool] ELSE q1
        Fill(b, s) == IF Falsy(b[s]) THEN [b EXCEPT ![s] = Arr(<<>>)] ELSE b
        b4 == Fill(Fill(Fill(Fill(q2.bool, "must"), "filter"), "should"), "must_not")
    IN StoreQuery(d1, heap, [q2 EXCEPT !.bool = b4])

\* this.query.query.bool[section].push(clause)
Push(doc, heap, section, clause) ==
    LET q == QueryOf(doc, heap)
    IN StoreQuery(doc, heap, [q EXCEPT !.bool[section].v = Append(@, clause)])

RECURSIVE PushAll(_, _, _, _)
PushAll(doc, heap, section, clauses) ==
    IF clauses = <<>> THEN [doc |-> doc, ext |-> heap]
    ELSE LET s == Push(doc, heap, section, Head(clauses))
         IN PushAll(s.doc, s.ext, section, Tail(clauses))

----------------------------------------------------------------------------
(* JSON.parse(JSON.stringify(x)): a deep copy that follows every reference, *)
(* drops the keys whose value is undefined and turns an undefined array    *)
(* element into null.                                                      *)

RECURSIVE JSONQuery(_, _)

\* A copy that leaves an undefined array element as it is
JSONElementKeepingUndefined(c, heap) ==
    IF c.t = "ref" THEN JSONQuery(heap[c.k], heap) ELSE c

JSONElement(c, heap) ==
    IF c.t = "undefined" THEN Null
    ELSE IF c.t = "ref" THEN JSONQuery(heap[c.k], heap)
    ELSE c

JSONArray(a, heap) ==
    IF a.t = "array"
    THEN Arr([i \in 1..Len(a.v) |-> JSONElement(a.v[i], heap)])
    ELSE a

JSONBool(b, heap) ==
    IF b.t = "object"
    THEN [t |-> "object",
          must |-> JSONArray(b.must, heap), filter |-> JSONArray(b.filter, heap),
          should |-> JSONArray(b.should, heap), must_not |-> JSONArray(b.must_not, heap),
          minimum_should_match |-> b.minimum_should_match]
    ELSE b

JSONNamed(n, heap) ==
    IF n.t = "function_score" THEN [n EXCEPT !.query = JSONQuery(n.query, heap)]
    ELSE IF n.t = "constant_score" THEN [n EXCEPT !.filter = JSONQuery(n.filter, heap)]
    ELSE n

JSONQuery(q, heap) ==
    IF q.t = "ref" THEN JSONQuery(heap[q.k], heap)
    ELSE IF q.t = "object"
    THEN QueryObject(JSONNamed(q.named, heap), JSONBool(q.bool, heap))
    ELSE q

JSONDocument(doc, heap) ==
    [doc EXCEPT !.query = JSONQuery(doc.query, heap),
                !.sort = JSONArray(doc.sort, heap)]

----------------------------------------------------------------------------
(* QueryBuilder.build *)

\* A slip in the fourth delete: the must_not section is never removed
DeleteIfEmptyButMustNot(b, s) ==
    IF s # "must_not" /\ b[s].t = "array" /\ Len(b[s].v) = 0
    THEN [b EXCEPT ![s] = Undef]
    ELSE b

\* if (bool.<section>?.length === 0) delete bool.<section>
DeleteIfEmpty(b, s) ==
    IF b[s].t = "array" /\ Len(b[s].v) = 0 THEN [b EXCEPT ![s] = Undef] ELSE b

\* A check that looks at the four sections only
KeysOfSections(b) == {k \in Sections : b[k].t # "undefined"}

\* Object.keys(bool)
KeysOfBool(b) == {k \in BoolKeys : b[k].t # "undefined"}

\* A cleanup that prunes the sections and never installs match_all
CleanupWithoutMatchAll(cleanedQuery) ==
    LET q == cleanedQuery.query
        bool == DeleteIfEmpty(DeleteIfEmpty(DeleteIfEmpty(DeleteIfEmpty(
                    q.bool, "must"), "filter"), "should"), "must_not")
    IN IF q.t = "object" /\ ~Falsy(q.bool)
       THEN [cleanedQuery EXCEPT !.query.bool = bool]
       ELSE cleanedQuery

\* The cleanup of build(), on the deep copy it is given
Cleanup(cleanedQuery) ==
    LET q == cleanedQuery.query
        bool == DeleteIfEmpty(DeleteIfEmpty(DeleteIfEmpty(DeleteIfEmpty(
                    q.bool, "must"), "filter"), "should"), "must_not")
        c1 == IF q.t = "object" /\ ~Falsy(q.bool)
              THEN IF KeysOfBool(bool) = {}
                   THEN [cleanedQuery EXCEPT !.query = MatchAll]
                   ELSE [cleanedQuery EXCEPT !.query.bool = bool]
              ELSE cleanedQuery
    IN IF c1.sort.t = "array" /\ Len(c1.sort.v) = 0
       THEN [c1 EXCEPT !.sort = Undef]
       ELSE c1

\* A build() that cleans the live document up instead of a copy of it
buildInPlace(doc, heap) ==
    [doc |-> Cleanup(doc), ext |-> heap, err |-> NoError,
     ret |-> Cleanup(JSONDocument(doc, heap))]

\* build(): the cleanup works on the deep copy, which is returned; the live
\* document and the caller's objects are left as they are
build(doc, heap) ==
    [doc |-> doc, ext |-> heap, err |-> NoError,
     ret |-> Cleanup(JSONDocument(doc, heap))]

\* The document build() returns
Built(doc, heap) == build(doc, heap).ret

----------------------------------------------------------------------------
(* The object build() returns, as the tree of keys and values that         *)
(* JSON.stringify walks: an object is the sequence of its members, a key   *)
(* that holds undefined is a key the object does not have.                 *)

Name(n) == [name |-> n]
Computed(chars) == [chars |-> chars]
Member(key, val) == [key |-> key, val |-> val]
Obj(members) == [t |-> "object", members |-> members]

\* The elements of a set, one after the other
RECURSIVE SeqOf(_)
SeqOf(S) ==
    IF S = {} THEN <<>>
    ELSE LET k == CHOOSE k \in S : TRUE IN <<k>> \o SeqOf(S \ {k})

\* The members that hold something
Present(members) == SelectSeq(members, LAMBDA m : m.val.t # "undefined")

RECURSIVE Plain(_, _)

\* The members of a record of the model, under the names of its fields
PlainFields(x, names, heap) ==
    Present([i \in 1..Len(names) |-> Member(Name(names[i]), Plain(x[names[i]], heap))])

\* The members of an object with computed keys
PlainMap(m, keys, heap) ==
    Present([i \in 1..Len(keys) |-> Member(Computed(keys[i]), Plain(m[keys[i]], heap))])

\* { <kind>: { <field>: body } }, or { <kind>: body } for a clause without a field
PlainClause(c, heap) ==
    Obj(<< Member(Name(c.kind),
                  IF c.field.t = "undefined"
                  THEN (IF c.body.t = "undefined" THEN Obj(<<>>) ELSE Plain(c.body, heap))
                  ELSE Obj(Present(<< Member(Computed(c.field.v),
                                             Plain(c.body, heap)) >>))) >>)

Plain(x, heap) ==
    IF x.t \in {"undefined", "null", "string", "number", "boolean"} THEN x
    ELSE IF x.t = "ref" THEN Plain(heap[x.k], heap)
    ELSE IF x.t = "array" THEN Arr([i \in 1..Len(x.v) |-> Plain(x.v[i], heap)])
    ELSE IF x.t # "object"
    THEN Obj(<< Member(Name(x.t),
                       Obj(PlainFields(x, SeqOf(DOMAIN x \ {"t"}), heap))) >>)
    ELSE IF "v" \in DOMAIN x THEN Obj(PlainMap(x.v, SeqOf(DOMAIN x.v), heap))
    ELSE IF "body" \in DOMAIN x THEN PlainClause(x, heap)
    ELSE IF "kind" \in DOMAIN x
    THEN Obj(<< Member(Name(x.kind),
                       Obj(PlainFields(x, SeqOf(DOMAIN x \ {"t", "kind"}), heap))) >>)
    ELSE IF "order" \in DOMAIN x
    THEN Obj(Present(<< Member(Computed(x.field.v), x.order) >>))
    ELSE IF "named" \in DOMAIN x
    THEN Obj(Present(
             (IF x.named.t = "undefined" THEN <<>>
              ELSE Plain(x.named, heap).members)
             \o << Member(Name("bool"), Plain(x.bool, heap)) >>))
    ELSE Obj(PlainFields(x, SeqOf(DOMAIN x \ {"t"}), heap))

\* The document, key by key
PlainDocument(doc, heap) ==
    Obj(PlainFields(doc, <<"from", "size", "query", "sort", "source", "aggs",
                           "highlight", "track_total_hits", "explain", "profile">>,
                    heap))

----------------------------------------------------------------------------
(* JSON.stringify(value, null, indent) and JSON.parse(text).  A text is a  *)
(* sequence of tokens: punctuation, strings, literals, and with an indent  *)
(* the line breaks and the spaces.                                         *)

Tok(c) == [c |-> c]
StrTok(s) == [c |-> "string", s |-> s]
LitTok(x) == [c |-> "literal", x |-> x]

IndentWidth == 2

\* The line break and the indentation in front of an item at this depth
NewLine(pretty, depth) ==
    IF pretty
    THEN <<Tok("\n")>> \o [i \in 1..(IndentWidth * depth) |-> Tok(" ")]
    ELSE <<>>

\* The separator behind a key
Colon(pretty) == IF pretty THEN <<Tok(":"), Tok(" ")>> ELSE <<Tok(":")>>

RECURSIVE Stringify(_, _, _)
RECURSIVE StringifyElements(_, _, _)
RECURSIVE StringifyMembers(_, _, _)

StringifyElements(elements, pretty, depth) ==
    NewLine(pretty, depth) \o Stringify(Head(elements), pretty, depth)
        \o (IF Len(elements) = 1 THEN <<>>
            ELSE <<Tok(",")>> \o StringifyElements(Tail(elements), pretty, depth))

StringifyMembers(members, pretty, depth) ==
    NewLine(pretty, depth) \o <<StrTok(Head(members).key)>> \o Colon(pretty)
        \o Stringify(Head(members).val, pretty, depth)
        \o (IF Len(members) = 1 THEN <<>>
            ELSE <<Tok(",")>> \o StringifyMembers(Tail(members), pretty, depth))

\* An undefined array element is written as null, a key that holds undefined
\* is left out, an empty array or object is written without a line break
Stringify(x, pretty, depth) ==
    IF x.t = "string" THEN <<StrTok(Computed(x.v))>>
    ELSE IF x.t = "undefined" THEN <<LitTok(Null)>>
    ELSE IF x.t \in {"null", "number", "boolean"} THEN <<LitTok(x)>>
    ELSE IF x.t = "array"
    THEN IF x.v = <<>> THEN <<Tok("["), Tok("]")>>
         ELSE <<Tok("[")>> \o StringifyElements(x.v, pretty, depth + 1)
                  \o NewLine(pretty, depth) \o <<Tok("]")>>
    ELSE IF Present(x.members) = <<>> THEN <<Tok("{"), Tok("}")>>
         ELSE <<Tok("{")>> \o StringifyMembers(Present(x.members), pretty, depth + 1)
                  \o NewLine(pretty, depth) \o <<Tok("}")>>

\* The text without the white space it starts with
RECURSIVE SkipSpace(_)
SkipSpace(text) ==
    IF text # <<>> /\ Head(text).c \in {"\n", " "} THEN SkipSpace(Tail(text)) ELSE text

RECURSIVE ParseValue(_)
RECURSIVE ParseElements(_, _)
RECURSIVE ParseMembers(_, _)

Parsed(val, rest) == [val |-> val, rest |-> rest]

\* The elements that follow the one just read
AfterElement(r, acc) == ParseElements(SkipSpace(r.rest), Append(acc, r.val))

\* text starts at an element, at a comma or at the closing bracket
ParseElements(text, acc) ==
    IF Head(text).c = "]" THEN Parsed(Arr(acc), Tail(text))
    ELSE IF Head(text).c = "," THEN ParseElements(SkipSpace(Tail(text)), acc)
    ELSE AfterElement(ParseValue(text), acc)

\* The members that follow the one just read
AfterMember(key, r, acc) ==
    ParseMembers(SkipSpace(r.rest), Append(acc, Member(key, r.val)))

\* text starts at a key, at a comma or at the closing brace; the colon
\* follows the key
ParseMembers(text, acc) ==
    IF Head(text).c = "}" THEN Parsed(Obj(acc), Tail(text))
    ELSE IF Head(text).c = "," THEN ParseMembers(SkipSpace(Tail(text)), acc)
    ELSE AfterMember(Head(text).s, ParseValue(Tail(SkipSpace(Tail(text)))), acc)

\* The value the text starts with, and the text behind it
ParseFirst(text) ==
    IF Head(text).c = "string" THEN Parsed(Str(Head(text).s.chars), Tail(text))
    ELSE IF Head(text).c = "literal" THEN Parsed(Head(text).x, Tail(text))
    ELSE IF Head(text).c = "[" THEN ParseElements(SkipSpace(Tail(text)), <<>>)
    ELSE ParseMembers(SkipSpace(Tail(text)), <<>>)

ParseValue(text) == ParseFirst(SkipSpace(text))

JSONParse(text) == ParseValue(text).val

----------------------------------------------------------------------------
(* QueryBuilder: the chainable methods.  Each takes the live document and  *)
(* the caller's objects and gives what the call leaves behind; a callback  *)
(* argument is the sequence of calls it makes on the builder handed to it. *)

RECURSIVE RunCallback(_, _, _)

\* The callback after a call that left its builder as r says
RunRest(r, rest) ==
    IF r.err # NoError THEN r ELSE RunCallback(r.doc, r.ext, rest)

\* The one-key clause object { kind: { field: body } } (or { kind: body })
Clause(kind, field, body) ==
    [t |-> "object", kind |-> kind, field |-> field, body |-> body]

KeywordSuffix == <<".", "k", "e", "y", "w", "o", "r", "d">>

from(doc, heap, value) ==
    LET e == validatePaginationParams(value, Undef)
    IN IF e # NoError THEN Throw(doc, heap, e)
       ELSE Return([doc EXCEPT !.from = value], heap)

size(doc, heap, value) ==
    LET e == validatePaginationParams(Undef, value)
    IN IF e # NoError THEN Throw(doc, heap, e)
       ELSE Return([doc EXCEPT !.size = value], heap)

match(doc, heap, field, value, operator) ==
    IF validateFieldName(field) # NoError THEN Throw(doc, heap, ValidationError)
    ELSE IF validateQueryValue(value) # NoError THEN Throw(doc, heap, ValidationError)
    ELSE LET s == ensureBoolQuery(doc, heap)
             matchQuery ==
                 Clause("match", field,
                        [t |-> "object", query |-> value,
                         operator |-> IF Falsy(operator) THEN Undef ELSE operator])
             p == Push(s.doc, s.ext, "must", matchQuery)
         IN Return(p.doc, p.ext)

\* A term() that appends the suffix whatever the field ends in
termAlwaysSuffixed(doc, heap, field, value) ==
    IF validateFieldName(field) # NoError THEN Throw(doc, heap, ValidationError)
    ELSE IF validateQueryValue(value) # NoError THEN Throw(doc, heap, ValidationError)
    ELSE LET s == ensureBoolQuery(doc, heap)
         IN Done(Push(s.doc, s.ext, "filter",
                      Clause("term", Str(field.v \o KeywordSuffix), value)))

term(doc, heap, field, value) ==
    IF validateFieldName(field) # NoError THEN Throw(doc, heap, ValidationError)
    ELSE IF validateQueryValue(value) # NoError THEN Throw(doc, heap, ValidationError)
    ELSE LET s == ensureBoolQuery(doc, heap)
             fieldName == IF EndsWith(field.v, KeywordSuffix)
                          THEN field.v
                          ELSE field.v \o KeywordSuffix
             p == Push(s.doc, s.ext, "filter", Clause("term", Str(fieldName), value))
         IN Return(p.doc, p.ext)

terms(doc, heap, field, values) ==
    IF validateFieldName(field) # NoError THEN Throw(doc, heap, ValidationError)
    ELSE IF values.t # "array" \/ Len(values.v) = 0 THEN Throw(doc, heap, GenericError)
    ELSE LET s == ensureBoolQuery(doc, heap)
             p == Push(s.doc, s.ext, "filter", Clause("terms", field, values))
         IN Return(p.doc, p.ext)

exists(doc, heap, field) ==
    IF validateFieldName(field) # NoError THEN Throw(doc, heap, ValidationError)
    ELSE LET s == ensureBoolQuery(doc, heap)
             p == Push(s.doc, s.ext, "filter",
                       Clause("exists", Undef, [t |-> "object", field |-> field]))
         IN Return(p.doc, p.ext)

\* A merge that forgets the filter clauses of subQuery
PushSubQueryMustOnly(doc, heap, section, subQuery) ==
    IF /\ subQuery.query.t = "object"
       /\ subQuery.query.bool.t = "object"
       /\ subQuery.query.bool.must.t = "array"
    THEN Done(PushAll(doc, heap, section, subQuery.query.bool.must.v))
    ELSE Return(doc, heap)

\* The two pushes of should/mustNot: the must and the filter clauses of
\* subQuery, when it has them, are appended to the section
PushSubQuery(doc, heap, section, subQuery) ==
    LET hasBool == subQuery.query.t = "object" /\ subQuery.query.bool.t = "object"
        Got(sec) == IF hasBool /\ subQuery.query.bool[sec].t = "array"
                    THEN subQuery.query.bool[sec].v
                    ELSE <<>>
        p1 == PushAll(doc, heap, section, Got("must"))
    IN Done(PushAll(p1.doc, p1.ext, section, Got("filter")))

\* What follows callback(subBuilder) in should/mustNot; s is the builder after
\* ensureBoolQuery(), sub the sub-builder as the callback left it
AfterCallback(s, sub, section) ==
    IF sub.err # NoError THEN Throw(s.doc, sub.ext, sub.err)
    ELSE PushSubQuery(s.doc, sub.ext, section, Built(sub.doc, sub.ext))

\* should(callback) and mustNot(callback): the section they extend differs
MergeCallback(doc, heap, callback, section) ==
    LET s == ensureBoolQuery(doc, heap)
    IN AfterCallback(s, RunCallback(NewDocument, s.ext, callback), section)

should(doc, heap, callback) == MergeCallback(doc, heap, callback, "should")

mustNot(doc, heap, callback) == MergeCallback(doc, heap, callback, "must_not")

minimumShouldMatch(doc, heap, value) ==
    LET s == ensureBoolQuery(doc, heap)
        q == QueryOf(s.doc, s.ext)
        w == StoreQuery(s.doc, s.ext, [q EXCEPT !.bool.minimum_should_match = value])
    IN Return(w.doc, w.ext)

sort(doc, heap, field, order) ==
    IF validateFieldName(field) # NoError THEN Throw(doc, heap, ValidationError)
    ELSE IF validateSortOrder(order) # NoError THEN Throw(doc, heap, ValidationError)
    ELSE LET a == IF Falsy(doc.sort) THEN <<>> ELSE doc.sort.v
             option == [t |-> "object", field |-> field, order |-> order]
         IN Return([doc EXCEPT !.sort = Arr(Append(a, option))], heap)

\* sortBy(options): the options object is pushed as it is
sortBy(doc, heap, options) ==
    Return([doc EXCEPT !.sort =
                Arr(Append(IF Falsy(doc.sort) THEN <<>> ELSE doc.sort.v, options))],
           heap)

clearSort(doc, heap) == Return([doc EXCEPT !.sort = Arr(<<>>)], heap)

\* The key whose assignment on a plain object replaces the object's prototype
ProtoKey == <<"_", "_", "p", "r", "o", "t", "o", "_", "_">>

\* this.query.aggs[name] = aggregation, for any name
AssignOwnKey(old, name, aggregation) ==
    [n \in DOMAIN old \cup {name.v} |-> IF n = name.v THEN aggregation ELSE old[n]]

\* this.query.aggs[name] = aggregation: under the name __proto__ the assignment
\* replaces the prototype of aggs and gives it no key of its own
AssignKey(old, name, aggregation) ==
    IF name.v = ProtoKey THEN old ELSE AssignOwnKey(old, name, aggregation)

aggregate(doc, heap, name, aggregation) ==
    IF validateAggregationName(name) # NoError THEN Throw(doc, heap, ValidationError)
    ELSE IF Falsy(aggregation) \/ aggregation.t \notin {"object", "array"}
    THEN Throw(doc, heap, GenericError)
    ELSE LET old == IF Falsy(doc.aggs) THEN <<>> ELSE doc.aggs.v
         IN Return([doc EXCEPT !.aggs =
                        [t |-> "object", v |-> AssignKey(old, name, aggregation)]],
                   heap)

raw(doc, heap, query, clause) ==
    LET s == ensureBoolQuery(doc, heap)
        p == Push(s.doc, s.ext, clause, query)
    IN IF clause \notin Sections
       THEN Throw(s.doc, s.ext, TypeError)
       ELSE Return(p.doc, p.ext)

setQuery(doc, heap, query) == Return([doc EXCEPT !.query = query], heap)

matchAll(doc, heap) == Return([doc EXCEPT !.query = MatchAll], heap)

\* A reset that gives the query back its empty bool and keeps the other keys
resetQueryOnly(doc, heap) == Return([doc EXCEPT !.query = NewDocument.query], heap)

reset(doc, heap) == Return(NewDocument, heap)

\* this.query._source = fields
source(doc, heap, fields) == Return([doc EXCEPT !.source = fields], heap)

\* {}
EmptyMap == [t |-> "object", v |-> <<>>]

\* An array of field names becomes { fields: { <name>: {} ... } }, anything
\* else is stored under fields as it is
highlight(doc, heap, fields) ==
    IF fields.t = "array"
    THEN Return([doc EXCEPT !.highlight =
                    [t |-> "object",
                     fields |-> [t |-> "object",
                                 v |-> [f \in {fields.v[i].v : i \in 1..Len(fields.v)}
                                           |-> EmptyMap]]]], heap)
    ELSE Return([doc EXCEPT !.highlight = [t |-> "object", fields |-> fields]], heap)

\* trackTotalHits(value = true)
trackTotalHits(doc, heap, value) ==
    Return([doc EXCEPT !.track_total_hits =
                IF value.t = "undefined" THEN Bool(TRUE) ELSE value], heap)

explain(doc, heap) == Return([doc EXCEPT !.explain = Bool(TRUE)], heap)

profile(doc, heap) == Return([doc EXCEPT !.profile = Bool(TRUE)], heap)

\* toJSON(pretty = false): the text of what build() returns, indented by two
\* when pretty is truthy
toJSON(doc, heap, pretty) ==
    [doc |-> build(doc, heap).doc, ext |-> build(doc, heap).ext, err |-> NoError,
     ret |-> Stringify(PlainDocument(Built(doc, heap), heap), ~Falsy(pretty), 0)]

MissingQuery == "Query is missing query clause"
BadFrom == "from parameter must be a non-negative integer"
BadSize == "size parameter must be a positive integer"

\* A check of size that does not skip a size that is falsy
ErrorsOfAnySize(built) ==
    (IF Falsy(built.query) THEN <<MissingQuery>> ELSE <<>>)
    \o (IF ~Falsy(built.from) /\ (LessThan(built.from, 0) \/ ~IsInteger(built.from))
        THEN <<BadFrom>> ELSE <<>>)
    \o (IF built.size.t = "number"
           /\ (~GreaterThan(built.size, 0) \/ ~IsInteger(built.size))
        THEN <<BadSize>> ELSE <<>>)

\* The messages validate() collects from what build() returned
ErrorsOf(built) ==
    (IF Falsy(built.query) THEN <<MissingQuery>> ELSE <<>>)
    \o (IF ~Falsy(built.from) /\ (LessThan(built.from, 0) \/ ~IsInteger(built.from))
        THEN <<BadFrom>> ELSE <<>>)
    \o (IF ~Falsy(built.size) /\ (~GreaterThan(built.size, 0) \/ ~IsInteger(built.size))
        THEN <<BadSize>> ELSE <<>>)

\* What validate() returns for the errors it collected
Verdict(errors) == [valid |-> errors = <<>>, errors |-> errors]

\* validate(): it builds, collects and returns; nothing is thrown
validate(doc, heap) ==
    [doc |-> build(doc, heap).doc, ext |-> build(doc, heap).ext, err |-> NoError,
     ret |-> Verdict(ErrorsOf(Built(doc, heap)))]

\* x?.length || 0
LengthOrZero(x) == IF x.t = "array" THEN Len(x.v) ELSE 0

\* A count that leaves the should clauses out
ClausesCountedWithoutShould(q) ==
    IF q.t = "object" /\ ~Falsy(q.bool)
    THEN LengthOrZero(q.bool.must) + LengthOrZero(q.bool.filter)
         + LengthOrZero(q.bool.must_not)
    ELSE 0

\* The clauses counted in built.query: those of the four sections of its bool
ClausesCounted(q) ==
    IF q.t = "object" /\ ~Falsy(q.bool)
    THEN LengthOrZero(q.bool.must) + LengthOrZero(q.bool.filter)
         + LengthOrZero(q.bool.should) + LengthOrZero(q.bool.must_not)
    ELSE 0

AggregationWeight == 2

\* The score of what build() returned
ComplexityOf(built) ==
    1 + ClausesCounted(built.query)
      + (IF Falsy(built.aggs) THEN 0
         ELSE Cardinality(DOMAIN built.aggs.v) * AggregationWeight)
      + (IF Falsy(built.sort) THEN 0 ELSE Len(built.sort.v))

getComplexity(doc, heap) ==
    [doc |-> build(doc, heap).doc, ext |-> build(doc, heap).ext, err |-> NoError,
     ret |-> ComplexityOf(Built(doc, heap))]

\* The live document of the builder clone() returns
clone(doc, heap) == JSONDocument(doc, heap)

\* What follows callback(subBuilder) in nested/hasChild/hasParent; s is the
\* builder after ensureBoolQuery(), sub the sub-builder as the callback left it
AfterEmbedded(s, sub, kind, name) ==
    IF sub.err # NoError THEN Throw(s.doc, sub.ext, sub.err)
    ELSE Done(Push(s.doc, sub.ext, "must",
                   Clause(kind, name, Built(sub.doc, sub.ext).query)))

\* nested(path, callback), hasChild(type, callback), hasParent(type, callback):
\* they differ in the guard of the first argument and in the clause they build
EmbedCallback(doc, heap, guard, kind, name, callback) ==
    LET s == ensureBoolQuery(doc, heap)
    IN IF guard # NoError THEN Throw(doc, heap, guard)
       ELSE AfterEmbedded(s, RunCallback(NewDocument, s.ext, callback), kind, name)

nested(doc, heap, path, callback) ==
    EmbedCallback(doc, heap, validateFieldName(path), "nested", path, callback)

hasChild(doc, heap, type, callback) ==
    EmbedCallback(doc, heap, validateQueryValue(type), "has_child", type, callback)

hasParent(doc, heap, type, callback) ==
    EmbedCallback(doc, heap, validateQueryValue(type), "has_parent", type, callback)

Multiply == Str(<<"m", "u", "l", "t", "i", "p", "l", "y">>)

\* options?.<key> || 'multiply'
ModeOr(options, key) ==
    IF options.t = "object" /\ ~Falsy(options[key]) THEN options[key] ELSE Multiply

\* A function_score wrapper that takes the modes from the options as they are
functionScoreWithoutDefaults(doc, heap, functions, options) ==
    Return([doc EXCEPT !.query =
                QueryObject([t |-> "function_score", query |-> doc.query,
                             functions |-> functions,
                             boost_mode |->
                                 IF options.t = "object" THEN options.boost_mode
                                 ELSE Undef,
                             score_mode |->
                                 IF options.t = "object" THEN options.score_mode
                                 ELSE Undef],
                            Undef)], heap)

functionScore(doc, heap, functions, options) ==
    LET currentQuery == doc.query
        wrapper == [t |-> "function_score", query |-> currentQuery,
                    functions |-> functions,
                    boost_mode |-> ModeOr(options, "boost_mode"),
                    score_mode |-> ModeOr(options, "score_mode")]
    IN Return([doc EXCEPT !.query = QueryObject(wrapper, Undef)], heap)

constantScore(doc, heap, boost) ==
    LET currentQuery == doc.query
        wrapper == [t |-> "constant_score", filter |-> currentQuery, boost |-> boost]
    IN Return([doc EXCEPT !.query = QueryObject(wrapper, Undef)], heap)

\* One call of a callback on the builder it was handed
Exec(doc, heap, c) ==
    CASE c.method = "from" -> from(doc, heap, c.args[1])
      [] c.method = "size" -> size(doc, heap, c.args[1])
      [] c.method = "match" -> match(doc, heap, c.args[1], c.args[2], c.args[3])
      [] c.method = "term" -> term(doc, heap, c.args[1], c.args[2])
      [] c.method = "should" -> should(doc, heap, c.args[1])
      [] c.method = "mustNot" -> mustNot(doc, heap, c.args[1])
      [] c.method = "minimumShouldMatch" -> minimumShouldMatch(doc, heap, c.args[1])
      [] c.method = "setQuery" -> setQuery(doc, heap, c.args[1])
      [] c.method = "matchAll" -> matchAll(doc, heap)
      [] c.method = "functionScore" -> functionScore(doc, heap, c.args[1], c.args[2])
      [] c.method = "constantScore" -> constantScore(doc, heap, c.args[1])

\* callback(subBuilder): the calls are made in order; one that throws ends it
RunCallback(doc, heap, callback) ==
    IF callback = <<>> THEN Return(doc, heap)
    ELSE RunRest(Exec(doc, heap, Head(callback)), Tail(callback))

----------------------------------------------------------------------------
(* QueryBuilder: the other clause methods *)

\* An append that puts the clause in front of the section
PrependClause(doc, heap, section, clause) ==
    LET s == ensureBoolQuery(doc, heap)
        q == QueryOf(s.doc, s.ext)
    IN Done(StoreQuery(s.doc, s.ext,
                       [q EXCEPT !.bool[section].v = <<clause>> \o @]))

\* this.ensureBoolQuery(); this.query.query.bool.<section>.push(clause); return this
AppendClause(doc, heap, section, clause) ==
    LET s == ensureBoolQuery(doc, heap)
    IN Done(Push(s.doc, s.ext, section, clause))

\* options?.<key>, and the value a key gets under `if (x) q.<key> = x`
OptionOf(options, key) == IF options.t = "object" THEN options[key] ELSE Undef
IfTruthy(x) == IF Falsy(x) THEN Undef ELSE x

matchPhrase(doc, heap, field, value) ==
    IF validateFieldName(field) # NoError THEN Throw(doc, heap, ValidationError)
    ELSE IF validateQueryValue(value) # NoError THEN Throw(doc, heap, ValidationError)
    ELSE AppendClause(doc, heap, "must", Clause("match_phrase", field, value))

range(doc, heap, field, r) ==
    IF validateFieldName(field) # NoError THEN Throw(doc, heap, ValidationError)
    ELSE IF validateRangeQuery(r) # NoError THEN Throw(doc, heap, ValidationError)
    ELSE AppendClause(doc, heap, "filter", Clause("range", field, r))

wildcard(doc, heap, field, value) ==
    IF validateFieldName(field) # NoError THEN Throw(doc, heap, ValidationError)
    ELSE IF validateQueryValue(value) # NoError THEN Throw(doc, heap, ValidationError)
    ELSE AppendClause(doc, heap, "must", Clause("wildcard", field, value))

prefix(doc, heap, field, value) ==
    IF validateFieldName(field) # NoError THEN Throw(doc, heap, ValidationError)
    ELSE IF validateQueryValue(value) # NoError THEN Throw(doc, heap, ValidationError)
    ELSE AppendClause(doc, heap, "must", Clause("prefix", field, value))

multiMatch(doc, heap, fields, value, type) ==
    IF validateStringArray(fields) # NoError THEN Throw(doc, heap, ValidationError)
    ELSE IF validateQueryValue(value) # NoError THEN Throw(doc, heap, ValidationError)
    ELSE IF validateMultiMatchType(type) # NoError THEN Throw(doc, heap, ValidationError)
    ELSE AppendClause(doc, heap, "must",
             Clause("multi_match", Undef,
                    [t |-> "object", query |-> value, fields |-> fields,
                     type |-> IfTruthy(type)]))

fuzzy(doc, heap, field, value, options) ==
    IF validateFieldName(field) # NoError THEN Throw(doc, heap, ValidationError)
    ELSE IF validateQueryValue(value) # NoError THEN Throw(doc, heap, ValidationError)
    ELSE AppendClause(doc, heap, "must",
             Clause("fuzzy", field,
                    [t |-> "object", value |-> value,
                     fuzziness |-> IfTruthy(OptionOf(options, "fuzziness")),
                     boost |-> IfTruthy(OptionOf(options, "boost"))]))

regexp(doc, heap, field, value, flags) ==
    IF validateFieldName(field) # NoError THEN Throw(doc, heap, ValidationError)
    ELSE IF validateQueryValue(value) # NoError THEN Throw(doc, heap, ValidationError)
    ELSE AppendClause(doc, heap, "must",
             Clause("regexp", field,
                    [t |-> "object", value |-> value, flags |-> IfTruthy(flags)]))

queryString(doc, heap, queryStr, options) ==
    IF validateQueryValue(queryStr) # NoError THEN Throw(doc, heap, ValidationError)
    ELSE AppendClause(doc, heap, "must",
             Clause("query_string", Undef,
                    [t |-> "object", query |-> queryStr,
                     fields |-> IfTruthy(OptionOf(options, "fields")),
                     default_operator |->
                         IfTruthy(OptionOf(options, "default_operator"))]))

simpleQueryString(doc, heap, queryStr, fields) ==
    IF validateQueryValue(queryStr) # NoError THEN Throw(doc, heap, ValidationError)
    ELSE AppendClause(doc, heap, "must",
             Clause("simple_query_string", Undef,
                    [t |-> "object", query |-> queryStr, fields |-> IfTruthy(fields)]))

\* a[i - 1] of an array a: undefined past its end
ElementAt(a, i) == IF i <= Len(a.v) THEN a.v[i] ELSE Undef

\* { lat: p[0], lon: p[1] }
LatLon(p) == [t |-> "object", lat |-> ElementAt(p, 1), lon |-> ElementAt(p, 2)]

geoDistance(doc, heap, field, distance, lat, lon) ==
    IF validateFieldName(field) # NoError THEN Throw(doc, heap, ValidationError)
    ELSE IF validateQueryValue(distance) # NoError THEN Throw(doc, heap, ValidationError)
    ELSE AppendClause(doc, heap, "filter",
             Clause("geo_distance", field,
                    [t |-> "object", distance |-> distance, lat |-> lat, lon |-> lon]))

\* topLeft[0] of a corner that is undefined or null throws a TypeError, and
\* by then ensureBoolQuery() has run
geoBoundingBox(doc, heap, field, topLeft, bottomRight) ==
    LET s == ensureBoolQuery(doc, heap)
    IN IF validateFieldName(field) # NoError THEN Throw(doc, heap, ValidationError)
       ELSE IF topLeft.t # "array" \/ bottomRight.t # "array"
       THEN Throw(s.doc, s.ext, TypeError)
       ELSE AppendClause(doc, heap, "filter",
                Clause("geo_bounding_box", field,
                       [t |-> "object", top_left |-> LatLon(topLeft),
                        bottom_right |-> LatLon(bottomRight)]))

\* points.map(([lat, lon]) => ...) of a point that is not iterable throws a
\* TypeError, and by then ensureBoolQuery() has run
geoPolygon(doc, heap, field, points) ==
    LET s == ensureBoolQuery(doc, heap)
    IN IF validateFieldName(field) # NoError THEN Throw(doc, heap, ValidationError)
       ELSE IF points.t # "array" \/ Len(points.v) < 3 THEN Throw(doc, heap, GenericError)
       ELSE IF \E i \in 1..Len(points.v) : points.v[i].t # "array"
       THEN Throw(s.doc, s.ext, TypeError)
       ELSE AppendClause(doc, heap, "filter",
                Clause("geo_polygon", field,
                       [t |-> "object",
                        points |-> Arr([i \in 1..Len(points.v) |-> LatLon(points.v[i])])]))

script(doc, heap, code, params) ==
    IF validateQueryValue(code) # NoError THEN Throw(doc, heap, ValidationError)
    ELSE AppendClause(doc, heap, "must",
             Clause("script", Undef,
                    [t |-> "object", source |-> code, params |-> IfTruthy(params)]))

\* like: the texts when there are any, extended by the docs when there are any
moreLikeThis(doc, heap, fields, texts, likeDocs) ==
    LET some(a) == a.t = "array" /\ Len(a.v) > 0
        like == IF some(texts) /\ some(likeDocs) THEN Arr(texts.v \o likeDocs.v)
                ELSE IF some(texts) THEN texts
                ELSE IF some(likeDocs) THEN likeDocs
                ELSE Undef
    IN IF validateStringArray(fields) # NoError THEN Throw(doc, heap, ValidationError)
       ELSE AppendClause(doc, heap, "must",
                Clause("more_like_this", Undef,
                       [t |-> "object", fields |-> fields, like |-> like]))

----------------------------------------------------------------------------
(* QueryBuilder: the aggregation helpers; each ends in this.aggregate(...) *)

DefaultTermsSize == 10

termsAgg(doc, heap, name, field, sizeArg) ==
    LET n == IF sizeArg.t = "undefined" THEN Whole(DefaultTermsSize) ELSE sizeArg
    IN IF validateFieldName(field) # NoError THEN Throw(doc, heap, ValidationError)
       ELSE IF ~IsInteger(n) \/ ~GreaterThan(n, 0) THEN Throw(doc, heap, GenericError)
       ELSE aggregate(doc, heap, name,
                [t |-> "object", kind |-> "terms", field |-> field, size |-> n])

dateHistogramAgg(doc, heap, name, field, interval, format) ==
    IF validateFieldName(field) # NoError THEN Throw(doc, heap, ValidationError)
    ELSE IF Falsy(interval) \/ interval.t # "string" \/ Len(Trim(interval.v)) = 0
    THEN Throw(doc, heap, GenericError)
    ELSE aggregate(doc, heap, name,
             [t |-> "object", kind |-> "date_histogram", field |-> field,
              calendar_interval |-> interval, format |-> IfTruthy(format)])

\* avgAgg, sumAgg, maxAgg, minAgg, cardinalityAgg, valueCountAgg: { <kind>: { field } }
MetricAgg(doc, heap, kind, name, field) ==
    IF validateAggregationName(name) # NoError THEN Throw(doc, heap, ValidationError)
    ELSE IF validateFieldName(field) # NoError THEN Throw(doc, heap, ValidationError)
    ELSE aggregate(doc, heap, name, [t |-> "object", kind |-> kind, field |-> field])

avgAgg(doc, heap, name, field) == MetricAgg(doc, heap, "avg", name, field)
sumAgg(doc, heap, name, field) == MetricAgg(doc, heap, "sum", name, field)
maxAgg(doc, heap, name, field) == MetricAgg(doc, heap, "max", name, field)
minAgg(doc, heap, name, field) == MetricAgg(doc, heap, "min", name, field)
cardinalityAgg(doc, heap, name, field) ==
    MetricAgg(doc, heap, "cardinality", name, field)
valueCountAgg(doc, heap, name, field) ==
    MetricAgg(doc, heap, "value_count", name, field)

histogramAgg(doc, heap, name, field, interval) ==
    IF validateAggregationName(name) # NoError THEN Throw(doc, heap, ValidationError)
    ELSE IF validateFieldName(field) # NoError THEN Throw(doc, heap, ValidationError)
    ELSE IF ~IsInteger(interval) \/ ~GreaterThan(interval, 0)
    THEN Throw(doc, heap, GenericError)
    ELSE aggregate(doc, heap, name,
             [t |-> "object", kind |-> "histogram", field |-> field,
              interval |-> interval])

rangeAgg(doc, heap, name, field, ranges) ==
    IF validateAggregationName(name) # NoError THEN Throw(doc, heap, ValidationError)
    ELSE IF validateFieldName(field) # NoError THEN Throw(doc, heap, ValidationError)
    ELSE IF ranges.t # "array" \/ Len(ranges.v) = 0 THEN Throw(doc, heap, GenericError)
    ELSE aggregate(doc, heap, name,
             [t |-> "object", kind |-> "range", field |-> field, ranges |-> ranges])

filtersAgg(doc, heap, name, filters) ==
    IF validateAggregationName(name) # NoError THEN Throw(doc, heap, ValidationError)
    ELSE IF Falsy(filters) \/ filters.t \notin {"object", "array"}
    THEN Throw(doc, heap, GenericError)
    ELSE aggregate(doc, heap, name,
             [t |-> "object", kind |-> "filters", filters |-> filters])

nestedAgg(doc, heap, name, path) ==
    IF validateAggregationName(name) # NoError THEN Throw(doc, heap, ValidationError)
    ELSE IF validateFieldName(path) # NoError THEN Throw(doc, heap, ValidationError)
    ELSE aggregate(doc, heap, name, [t |-> "object", kind |-> "nested", path |-> path])

----------------------------------------------------------------------------
(* The arguments the caller passes *)

FieldA == Str(<<"a">>)
Blank == Str(<<" ">>)
ValueX == Str(<<"x">>)
And == Str(<<"a", "n", "d">>)
Asc == Str(<<"a", "s", "c">>)
Up == Str(<<"u", "p">>)
FieldKeyword == Str(<<"a">> \o KeywordSuffix)
NameB == Str(<<"b">>)
Phrase == Str(<<"p", "h", "r", "a", "s", "e">>)

FromInputs == {Undef, Whole(-1), Whole(0), Num(3, 2), Whole(MaxSize + 1)}
SizeInputs == {Undef, Whole(-1), Whole(0), Num(3, 2), Whole(MaxSize), Whole(MaxSize + 1)}
MatchInputs ==
    { <<FieldA, ValueX, Undef>>, <<FieldA, ValueX, And>>,
      <<Null, ValueX, Undef>>, <<FieldA, Undef, Undef>> }
TermInputs == { <<FieldA, ValueX>>, <<Blank, ValueX>>, <<FieldA, Str(<<>>)>> }
TermsInputs == { <<FieldA, Arr(<<ValueX>>)>>, <<FieldA, Arr(<<>>)>> }
ExistsInputs == {FieldA}
AggregateInputs ==
    { <<FieldA, [t |-> "object", kind |-> "avg", field |-> FieldA]>>,
      <<FieldA, Null>> }
MinimumInputs == {Whole(1)}
SortInputs == { <<FieldA, Asc>>, <<FieldA, Up>> }

\* A clause object the caller wrote: { match_all: {} }
RawClause == [t |-> "object", kind |-> "match_all", field |-> Undef, body |-> Undef]

\* The caller's own query objects: { term: {...} } and { bool: { must: [ {...} ] } }
ExtIds == {1, 2}
ExtInit ==
    [k \in ExtIds |->
        IF k = 1
        THEN QueryObject([t |-> "term"], Undef)
        ELSE QueryObject(Undef,
                 [t |-> "object", must |-> Arr(<<RawClause>>), filter |-> Undef,
                  should |-> Undef, must_not |-> Undef,
                  minimum_should_match |-> Undef])]

RawInputs ==
    { <<RawClause, "must">>, <<RawClause, "should">>, <<RawClause, "bogus">>,
      <<Ref(1), "filter">> }
QueryInputs == {Undef} \cup {Ref(k) : k \in ExtIds}

Cmd(method, args) == [method |-> method, args |-> args]

\* The callbacks the caller passes, as the calls each makes on its builder
AddsNothing == <<>>
AddsMatch == <<Cmd("match", <<FieldA, ValueX, Undef>>)>>
AddsMatchAndTerm ==
    <<Cmd("match", <<FieldA, ValueX, Undef>>), Cmd("term", <<FieldA, ValueX>>)>>
MakesInvalidCall == <<Cmd("match", <<Blank, ValueX, Undef>>)>>
AddsTermAndWraps ==
    <<Cmd("term", <<FieldA, ValueX>>), Cmd("functionScore", <<Arr(<<>>), Undef>>)>>

\* Callbacks whose sub-builder ends with several clauses, with a should
\* section of its own, or on a query object of the caller
AddsTermThenMatches ==
    <<Cmd("term", <<FieldA, ValueX>>), Cmd("match", <<FieldA, ValueX, Undef>>),
      Cmd("match", <<FieldA, ValueX, And>>)>>
AddsShouldInside == <<Cmd("should", <<AddsMatch>>), Cmd("term", <<FieldA, ValueX>>)>>
SetsCallerQuery == <<Cmd("setQuery", <<Ref(2)>>), Cmd("match", <<FieldA, ValueX, Undef>>)>>
GroupInputs ==
    { AddsNothing, AddsMatchAndTerm, MakesInvalidCall, AddsTermAndWraps,
      AddsTermThenMatches, AddsShouldInside, SetsCallerQuery }

CallbackInputs ==
    {AddsNothing, AddsMatch, AddsMatchAndTerm, MakesInvalidCall, AddsTermAndWraps}
MustNotInputs == {AddsNothing, AddsMatchAndTerm, MakesInvalidCall}
NestedInputs ==
    { <<FieldA, AddsNothing>>, <<FieldA, AddsMatch>>, <<FieldA, MakesInvalidCall>>,
      <<FieldA, AddsTermAndWraps>>, <<Blank, AddsMatch>> }
HasChildInputs == {<<ValueX, AddsMatch>>, <<Undef, AddsMatch>>}
HasParentInputs == {<<ValueX, AddsMatchAndTerm>>, <<ValueX, MakesInvalidCall>>}

\* { gte: 1 }, { gte: 1, lt: 5 }, { boost: 2 }, { gte: undefined, gt: 2 },
\* { gte: 1, gt: 2 }, { lte: null, lt: 5 }, {}, { gte: undefined }, { from: 1 },
\* [1], null, 'x'
RangeInputs ==
    { <<FieldA, [t |-> "object", v |-> ("gte" :> Whole(1))]>>,
      <<FieldA, [t |-> "object", v |-> ("gte" :> Whole(1)) @@ ("lt" :> Whole(5))]>>,
      <<FieldA, [t |-> "object", v |-> ("boost" :> Whole(2))]>>,
      <<FieldA, [t |-> "object", v |-> ("gte" :> Undef) @@ ("gt" :> Whole(2))]>>,
      <<FieldA, [t |-> "object", v |-> ("gte" :> Whole(1)) @@ ("gt" :> Whole(2))]>>,
      <<FieldA, [t |-> "object", v |-> ("lte" :> Null) @@ ("lt" :> Whole(5))]>>,
      <<FieldA, [t |-> "object", v |-> [k \in {} |-> Undef]]>>,
      <<FieldA, [t |-> "object", v |-> ("gte" :> Undef)]>>,
      <<FieldA, [t |-> "object", v |-> ("from" :> Whole(1))]>>,
      <<FieldA, Arr(<<Whole(1)>>)>>,
      <<FieldA, Null>>,
      <<FieldA, ValueX>>,
      <<Blank, [t |-> "object", v |-> ("gte" :> Whole(1))]>> }

TermFieldInputs ==
    { <<FieldA, ValueX>>, <<FieldKeyword, ValueX>>, <<Blank, ValueX>>,
      <<FieldA, Str(<<>>)>> }
TermsFieldInputs ==
    { <<FieldA, Arr(<<ValueX>>)>>, <<FieldA, Arr(<<>>)>>, <<Null, Arr(<<ValueX>>)>> }
ExistsFieldInputs == {FieldA, Blank}
SortFieldInputs == { <<FieldA, Asc>>, <<FieldA, Up>>, <<Null, Asc>> }
AggregateNamedInputs ==
    AggregateInputs
        \cup { <<NameB, [t |-> "object", kind |-> "sum", field |-> FieldA]>>,
               <<FieldA, [t |-> "object", kind |-> "max", field |-> FieldA]>>,
               <<Str(ProtoKey), [t |-> "object", kind |-> "avg", field |-> FieldA]>> }
MatchPhraseInputs == { <<FieldA, ValueX>>, <<Str(<<>>), ValueX>> }
WildcardInputs == { <<FieldA, ValueX>>, <<Undef, ValueX>> }
PrefixInputs == { <<FieldA, ValueX>>, <<Whole(7), ValueX>> }
MultiMatchInputs ==
    { <<Arr(<<FieldA>>), ValueX, Undef>>, <<Arr(<<FieldA>>), ValueX, Phrase>>,
      <<Arr(<<FieldA>>), ValueX, Up>>, <<Arr(<<Blank>>), ValueX, Undef>> }
FuzzyInputs ==
    { <<FieldA, ValueX, Undef>>,
      <<FieldA, ValueX, [t |-> "object", fuzziness |-> Whole(2), boost |-> Whole(0)]>>,
      <<Null, ValueX, Undef>> }
RegexpInputs == { <<FieldA, ValueX, Undef>>, <<FieldA, ValueX, Up>>, <<Blank, ValueX, Undef>> }
QueryStringInputs ==
    { <<ValueX, Undef>>,
      <<ValueX, [t |-> "object", fields |-> Arr(<<FieldA>>), default_operator |-> Undef]>>,
      <<Blank, Undef>> }
SimpleQueryStringInputs == { <<ValueX, Undef>>, <<ValueX, Arr(<<FieldA>>)>>, <<Null, Undef>> }
Corner == Arr(<<Whole(1), Whole(2)>>)
GeoDistanceInputs ==
    { <<FieldA, ValueX, Whole(1), Whole(2)>>, <<Blank, ValueX, Whole(1), Whole(2)>> }
GeoBoundingBoxInputs ==
    { <<FieldA, Corner, Corner>>, <<FieldA, Undef, Corner>>, <<Str(<<>>), Corner, Corner>> }
GeoPolygonInputs ==
    { <<FieldA, Arr(<<Corner, Corner, Corner>>)>>, <<FieldA, Arr(<<Corner, Corner>>)>>,
      <<FieldA, Arr(<<Corner, Corner, Null>>)>>, <<Null, Arr(<<Corner, Corner, Corner>>)>> }
ScriptInputs == { <<ValueX, Undef>>, <<Undef, Undef>> }
MoreLikeThisInputs ==
    { <<Arr(<<FieldA>>), Arr(<<ValueX>>), Arr(<<ValueX>>)>>,
      <<Arr(<<FieldA>>), Undef, Undef>>, <<Arr(<<>>), Undef, Undef>> }

TermsAggInputs ==
    { <<FieldA, FieldA, Undef>>, <<FieldA, FieldA, Whole(5)>>, <<FieldA, FieldA, Whole(0)>>,
      <<FieldA, Blank, Undef>> }
DateHistogramAggInputs ==
    { <<FieldA, FieldA, ValueX, Undef>>, <<FieldA, FieldA, Blank, Undef>>,
      <<FieldA, Null, ValueX, Undef>> }
MetricAggInputs == { <<FieldA, FieldA>>, <<NameB, FieldA>>, <<FieldA, Blank>> }
HistogramAggInputs ==
    { <<FieldA, FieldA, Whole(5)>>, <<FieldA, FieldA, Num(1, 2)>>, <<FieldA, Blank, Whole(5)>> }
RangeAggInputs ==
    { <<NameB, FieldA, Arr(<<EmptyObject>>)>>, <<NameB, FieldA, Arr(<<>>)>>,
      <<NameB, Undef, Arr(<<EmptyObject>>)>> }
FiltersAggInputs == { <<NameB, EmptyObject>>, <<NameB, Undef>>, <<Blank, EmptyObject>> }
NestedAggInputs == { <<FieldA, FieldA>>, <<FieldA, Str(<<>>)>> }

BuilderIds == {"b1", "b2"}

----------------------------------------------------------------------------
(* The state machine: one action per public method *)

Init ==
    /\ alive = {"b1"}
    /\ docs = [b \in BuilderIds |-> NewDocument]
    /\ ext = ExtInit
    /\ last = [b |-> "b1", method |-> "constructor", args |-> <<>>, err |-> NoError]
    /\ touched = {}
    /\ origin = [b \in BuilderIds |-> "constructor"]
    /\ budget = MaxSteps
    /\ client = NoClient

\* Builder b runs method(args) and is left as r says
Call(b, method, args, r) ==
    /\ budget > 0
    /\ b \in alive
    /\ docs' = [docs EXCEPT ![b] = r.doc]
    /\ ext' = r.ext
    /\ last' = [b |-> b, method |-> method, args |-> args, err |-> r.err]
    /\ touched' = IF method = "build" THEN touched ELSE touched \cup {b}
    /\ budget' = budget - 1
    /\ UNCHANGED <<alive, origin, client>>

\* new QueryBuilder()
New(b) ==
    /\ budget > 0
    /\ b \notin alive
    /\ alive' = alive \cup {b}
    /\ docs' = [docs EXCEPT ![b] = NewDocument]
    /\ last' = [b |-> b, method |-> "constructor", args |-> <<>>, err |-> NoError]
    /\ origin' = [origin EXCEPT ![b] = "constructor"]
    /\ budget' = budget - 1
    /\ UNCHANGED <<ext, touched, client>>

\* b = a.clone()
Clone(a, b) ==
    /\ budget > 0
    /\ a \in alive
    /\ b \notin alive
    /\ alive' = alive \cup {b}
    /\ docs' = [docs EXCEPT ![b] = clone(docs[a], ext)]
    /\ last' = [b |-> a, method |-> "clone", args |-> <<>>, err |-> NoError]
    /\ origin' = [origin EXCEPT ![b] = a]
    /\ budget' = budget - 1
    /\ UNCHANGED <<ext, touched, client>>

From(b) ==
    \E v \in FromInputs : Call(b, "from", <<v>>, from(docs[b], ext, v))

Size(b) ==
    \E v \in SizeInputs : Call(b, "size", <<v>>, size(docs[b], ext, v))

Match(b) ==
    \E a \in MatchInputs : Call(b, "match", a, match(docs[b], ext, a[1], a[2], a[3]))

Term(b) ==
    \E a \in TermInputs : Call(b, "term", a, term(docs[b], ext, a[1], a[2]))

Terms(b) ==
    \E a \in TermsInputs : Call(b, "terms", a, terms(docs[b], ext, a[1], a[2]))

Exists(b) ==
    \E f \in ExistsInputs : Call(b, "exists", <<f>>, exists(docs[b], ext, f))

Aggregate(b) ==
    \E a \in AggregateInputs :
        Call(b, "aggregate", a, aggregate(docs[b], ext, a[1], a[2]))

Should(b) ==
    \E cb \in CallbackInputs : Call(b, "should", <<cb>>, should(docs[b], ext, cb))

MustNot(b) ==
    \E cb \in MustNotInputs : Call(b, "mustNot", <<cb>>, mustNot(docs[b], ext, cb))

MinimumShouldMatch(b) ==
    \E v \in MinimumInputs :
        Call(b, "minimumShouldMatch", <<v>>, minimumShouldMatch(docs[b], ext, v))

Sort(b) ==
    \E a \in SortInputs : Call(b, "sort", a, sort(docs[b], ext, a[1], a[2]))

ClearSort(b) == Call(b, "clearSort", <<>>, clearSort(docs[b], ext))

\* A caller object is handed to raw() by reference only while the builder's
\* own query object is not a caller object, so that no object contains itself
Raw(b) ==
    \E a \in RawInputs :
        /\ a[1].t = "ref" => docs[b].query.t # "ref"
        /\ Call(b, "raw", a, raw(docs[b], ext, a[1], a[2]))

SetQuery(b) ==
    \E q \in QueryInputs : Call(b, "setQuery", <<q>>, setQuery(docs[b], ext, q))

MatchAllCall(b) == Call(b, "matchAll", <<>>, matchAll(docs[b], ext))

Reset(b) == Call(b, "reset", <<>>, reset(docs[b], ext))

Build(b) == Call(b, "build", <<>>, build(docs[b], ext))

Nested(b) ==
    \E a \in NestedInputs : Call(b, "nested", a, nested(docs[b], ext, a[1], a[2]))

HasChild(b) ==
    \E a \in HasChildInputs : Call(b, "hasChild", a, hasChild(docs[b], ext, a[1], a[2]))

HasParent(b) ==
    \E a \in HasParentInputs :
        Call(b, "hasParent", a, hasParent(docs[b], ext, a[1], a[2]))

FunctionScore(b) ==
    Call(b, "functionScore", <<Arr(<<>>), Undef>>,
         functionScore(docs[b], ext, Arr(<<>>), Undef))

ConstantScore(b) ==
    Call(b, "constantScore", <<Whole(2)>>, constantScore(docs[b], ext, Whole(2)))

Next ==
    \E b \in BuilderIds :
        \/ New(b)
        \/ \E a \in BuilderIds : Clone(a, b)
        \/ From(b)
        \/ Size(b)
        \/ Match(b)
        \/ Term(b)
        \/ Terms(b)
        \/ Exists(b)
        \/ Aggregate(b)
        \/ Should(b)
        \/ MustNot(b)
        \/ MinimumShouldMatch(b)
        \/ Sort(b)
        \/ ClearSort(b)
        \/ Raw(b)
        \/ SetQuery(b)
        \/ MatchAllCall(b)
        \/ Reset(b)
        \/ Build(b)
        \/ Nested(b)
        \/ HasChild(b)
        \/ HasParent(b)
        \/ FunctionScore(b)
        \/ ConstantScore(b)

Spec == Init /\ [][Next]_vars

\* Two builders and the calls through which they can come to hold one object
InitShare ==
    /\ alive = {"b1"}
    /\ docs = [b \in BuilderIds |-> NewDocument]
    /\ ext = ExtInit
    /\ last = [b |-> "b1", method |-> "constructor", args |-> <<>>, err |-> NoError]
    /\ touched = {}
    /\ origin = [b \in BuilderIds |-> "constructor"]
    /\ budget = MaxShareSteps
    /\ client = NoClient

NextShare ==
    \E b \in BuilderIds :
        \/ New(b)
        \/ \E a \in BuilderIds : Clone(a, b)
        \/ SetQuery(b)
        \/ Match(b)
        \/ Raw(b)
        \/ Build(b)

SpecShare == InitShare /\ [][NextShare]_vars

\* The clause, sort and aggregation methods, each with arguments it accepts and
\* arguments it rejects
AggregateNamed(b) ==
    \E a \in AggregateNamedInputs :
        Call(b, "aggregate", a, aggregate(docs[b], ext, a[1], a[2]))

TermField(b) ==
    \E a \in TermFieldInputs : Call(b, "term", a, term(docs[b], ext, a[1], a[2]))

TermsField(b) ==
    \E a \in TermsFieldInputs : Call(b, "terms", a, terms(docs[b], ext, a[1], a[2]))

ExistsField(b) ==
    \E f \in ExistsFieldInputs : Call(b, "exists", <<f>>, exists(docs[b], ext, f))

SortField(b) ==
    \E a \in SortFieldInputs : Call(b, "sort", a, sort(docs[b], ext, a[1], a[2]))

MatchPhrase(b) ==
    \E a \in MatchPhraseInputs :
        Call(b, "matchPhrase", a, matchPhrase(docs[b], ext, a[1], a[2]))

Range(b) ==
    \E a \in RangeInputs :
        Call(b, "range", a, range(docs[b], ext, a[1], a[2]))

Wildcard(b) ==
    \E a \in WildcardInputs :
        Call(b, "wildcard", a, wildcard(docs[b], ext, a[1], a[2]))

Prefix(b) ==
    \E a \in PrefixInputs :
        Call(b, "prefix", a, prefix(docs[b], ext, a[1], a[2]))

MultiMatch(b) ==
    \E a \in MultiMatchInputs :
        Call(b, "multiMatch", a, multiMatch(docs[b], ext, a[1], a[2], a[3]))

Fuzzy(b) ==
    \E a \in FuzzyInputs :
        Call(b, "fuzzy", a, fuzzy(docs[b], ext, a[1], a[2], a[3]))

Regexp(b) ==
    \E a \in RegexpInputs :
        Call(b, "regexp", a, regexp(docs[b], ext, a[1], a[2], a[3]))

QueryString(b) ==
    \E a \in QueryStringInputs :
        Call(b, "queryString", a, queryString(docs[b], ext, a[1], a[2]))

SimpleQueryString(b) ==
    \E a \in SimpleQueryStringInputs :
        Call(b, "simpleQueryString", a, simpleQueryString(docs[b], ext, a[1], a[2]))

GeoDistance(b) ==
    \E a \in GeoDistanceInputs :
        Call(b, "geoDistance", a, geoDistance(docs[b], ext, a[1], a[2], a[3], a[4]))

GeoBoundingBox(b) ==
    \E a \in GeoBoundingBoxInputs :
        Call(b, "geoBoundingBox", a, geoBoundingBox(docs[b], ext, a[1], a[2], a[3]))

GeoPolygon(b) ==
    \E a \in GeoPolygonInputs :
        Call(b, "geoPolygon", a, geoPolygon(docs[b], ext, a[1], a[2]))

Script(b) ==
    \E a \in ScriptInputs :
        Call(b, "script", a, script(docs[b], ext, a[1], a[2]))

MoreLikeThis(b) ==
    \E a \in MoreLikeThisInputs :
        Call(b, "moreLikeThis", a, moreLikeThis(docs[b], ext, a[1], a[2], a[3]))

TermsAgg(b) ==
    \E a \in TermsAggInputs :
        Call(b, "termsAgg", a, termsAgg(docs[b], ext, a[1], a[2], a[3]))

DateHistogramAgg(b) ==
    \E a \in DateHistogramAggInputs :
        Call(b, "dateHistogramAgg", a, dateHistogramAgg(docs[b], ext, a[1], a[2], a[3], a[4]))

AvgAgg(b) ==
    \E a \in MetricAggInputs :
        Call(b, "avgAgg", a, avgAgg(docs[b], ext, a[1], a[2]))

SumAgg(b) ==
    \E a \in MetricAggInputs :
        Call(b, "sumAgg", a, sumAgg(docs[b], ext, a[1], a[2]))

MaxAgg(b) ==
    \E a \in MetricAggInputs :
        Call(b, "maxAgg", a, maxAgg(docs[b], ext, a[1], a[2]))

MinAgg(b) ==
    \E a \in MetricAggInputs :
        Call(b, "minAgg", a, minAgg(docs[b], ext, a[1], a[2]))

CardinalityAgg(b) ==
    \E a \in MetricAggInputs :
        Call(b, "cardinalityAgg", a, cardinalityAgg(docs[b], ext, a[1], a[2]))

ValueCountAgg(b) ==
    \E a \in MetricAggInputs :
        Call(b, "valueCountAgg", a, valueCountAgg(docs[b], ext, a[1], a[2]))

HistogramAgg(b) ==
    \E a \in HistogramAggInputs :
        Call(b, "histogramAgg", a, histogramAgg(docs[b], ext, a[1], a[2], a[3]))

RangeAgg(b) ==
    \E a \in RangeAggInputs :
        Call(b, "rangeAgg", a, rangeAgg(docs[b], ext, a[1], a[2], a[3]))

FiltersAgg(b) ==
    \E a \in FiltersAggInputs :
        Call(b, "filtersAgg", a, filtersAgg(docs[b], ext, a[1], a[2]))

NestedAgg(b) ==
    \E a \in NestedAggInputs :
        Call(b, "nestedAgg", a, nestedAgg(docs[b], ext, a[1], a[2]))

InitOps ==
    /\ alive = {"b1"}
    /\ docs = [b \in BuilderIds |-> NewDocument]
    /\ ext = ExtInit
    /\ last = [b |-> "b1", method |-> "constructor", args |-> <<>>, err |-> NoError]
    /\ touched = {}
    /\ origin = [b \in BuilderIds |-> "constructor"]
    /\ budget = MaxOpsSteps
    /\ client = NoClient

NextOps ==
    \E b \in BuilderIds :
        \/ Match(b)
        \/ TermField(b)
        \/ TermsField(b)
        \/ ExistsField(b)
        \/ Nested(b)
        \/ HasChild(b)
        \/ HasParent(b)
        \/ SortField(b)
        \/ AggregateNamed(b)
        \/ Raw(b)
        \/ Size(b)
        \/ MinimumShouldMatch(b)
        \/ SetQuery(b)
        \/ Build(b)
        \/ MatchPhrase(b)
        \/ Range(b)
        \/ Wildcard(b)
        \/ Prefix(b)
        \/ MultiMatch(b)
        \/ Fuzzy(b)
        \/ Regexp(b)
        \/ QueryString(b)
        \/ SimpleQueryString(b)
        \/ GeoDistance(b)
        \/ GeoBoundingBox(b)
        \/ GeoPolygon(b)
        \/ Script(b)
        \/ MoreLikeThis(b)
        \/ TermsAgg(b)
        \/ DateHistogramAgg(b)
        \/ AvgAgg(b)
        \/ SumAgg(b)
        \/ MaxAgg(b)
        \/ MinAgg(b)
        \/ CardinalityAgg(b)
        \/ ValueCountAgg(b)
        \/ HistogramAgg(b)
        \/ RangeAgg(b)
        \/ FiltersAgg(b)
        \/ NestedAgg(b)

SpecOps == InitOps /\ [][NextOps]_vars

\* should() and mustNot() with callbacks that leave their sub-builder in every
\* shape, on builders whose own query is a bool object, a wrapper or an object
\* of the caller
ShouldGroup(b) ==
    \E cb \in GroupInputs : Call(b, "should", <<cb>>, should(docs[b], ext, cb))

MustNotGroup(b) ==
    \E cb \in GroupInputs : Call(b, "mustNot", <<cb>>, mustNot(docs[b], ext, cb))

InitMerge ==
    /\ alive = {"b1"}
    /\ docs = [b \in BuilderIds |-> NewDocument]
    /\ ext = ExtInit
    /\ last = [b |-> "b1", method |-> "constructor", args |-> <<>>, err |-> NoError]
    /\ touched = {}
    /\ origin = [b \in BuilderIds |-> "constructor"]
    /\ budget = MaxMergeSteps
    /\ client = NoClient

NextMerge ==
    \E b \in BuilderIds :
        \/ ShouldGroup(b)
        \/ MustNotGroup(b)
        \/ Match(b)
        \/ Term(b)
        \/ SetQuery(b)
        \/ FunctionScore(b)
        \/ Build(b)

SpecMerge == InitMerge /\ [][NextMerge]_vars

----------------------------------------------------------------------------
(* The document as a whole: its options, its text, and reset() *)

SourceInputs == {Arr(<<FieldA>>), Bool(FALSE)}
HighlightInputs ==
    {Arr(<<FieldA, NameB>>), [t |-> "object", v |-> (FieldA.v :> EmptyMap)]}
TrackTotalHitsInputs == {Undef, Bool(FALSE)}
PrettyInputs == {Undef, Bool(TRUE)}
RawValueInputs == { <<Undef, "must">>, <<Ref(2), "filter">> }

Source(b) == \E f \in SourceInputs : Call(b, "source", <<f>>, source(docs[b], ext, f))

Highlight(b) ==
    \E f \in HighlightInputs : Call(b, "highlight", <<f>>, highlight(docs[b], ext, f))

TrackTotalHits(b) ==
    \E v \in TrackTotalHitsInputs :
        Call(b, "trackTotalHits", <<v>>, trackTotalHits(docs[b], ext, v))

Explain(b) == Call(b, "explain", <<>>, explain(docs[b], ext))

Profile(b) == Call(b, "profile", <<>>, profile(docs[b], ext))

ToJSON(b) ==
    \E pretty \in PrettyInputs :
        Call(b, "toJSON", <<pretty>>, toJSON(docs[b], ext, pretty))

\* raw() with a value that is not a clause object, and with a caller's object
RawValue(b) ==
    \E a \in RawValueInputs :
        /\ a[1].t = "ref" => docs[b].query.t # "ref"
        /\ Call(b, "raw", a, raw(docs[b], ext, a[1], a[2]))

InitDoc ==
    /\ alive = {"b1"}
    /\ docs = [b \in BuilderIds |-> NewDocument]
    /\ ext = ExtInit
    /\ last = [b |-> "b1", method |-> "constructor", args |-> <<>>, err |-> NoError]
    /\ touched = {}
    /\ origin = [b \in BuilderIds |-> "constructor"]
    /\ budget = MaxDocSteps
    /\ client = NoClient

NextDoc ==
    \E b \in BuilderIds :
        \/ Match(b)
        \/ Size(b)
        \/ Sort(b)
        \/ Aggregate(b)
        \/ Source(b)
        \/ Highlight(b)
        \/ TrackTotalHits(b)
        \/ Explain(b)
        \/ Profile(b)
        \/ RawValue(b)
        \/ SetQuery(b)
        \/ FunctionScore(b)
        \/ Reset(b)
        \/ ToJSON(b)
        \/ Build(b)

SpecDoc == InitDoc /\ [][NextDoc]_vars

----------------------------------------------------------------------------
(* The scoring wrappers, on every kind of query and followed by clauses *)

Replace == Str(<<"r", "e", "p", "l", "a", "c", "e">>)
WeightFunction == [t |-> "object", v |-> (<<"w", "e", "i", "g", "h", "t">> :> Whole(2))]

FunctionScoreInputs ==
    { <<Arr(<<>>), Undef>>,
      <<Arr(<<WeightFunction>>),
        [t |-> "object", boost_mode |-> Replace, score_mode |-> Undef]>>,
      <<Arr(<<WeightFunction>>),
        [t |-> "object", boost_mode |-> Str(<<>>), score_mode |-> Replace]>> }
ConstantScoreInputs == {Whole(2), Num(1, 2)}

FunctionScoreWith(b) ==
    \E a \in FunctionScoreInputs :
        Call(b, "functionScore", a, functionScore(docs[b], ext, a[1], a[2]))

ConstantScoreWith(b) ==
    \E boost \in ConstantScoreInputs :
        Call(b, "constantScore", <<boost>>, constantScore(docs[b], ext, boost))

InitScore ==
    /\ alive = {"b1"}
    /\ docs = [b \in BuilderIds |-> NewDocument]
    /\ ext = ExtInit
    /\ last = [b |-> "b1", method |-> "constructor", args |-> <<>>, err |-> NoError]
    /\ touched = {}
    /\ origin = [b \in BuilderIds |-> "constructor"]
    /\ budget = MaxScoreSteps
    /\ client = NoClient

NextScore ==
    \E b \in BuilderIds :
        \/ FunctionScoreWith(b)
        \/ ConstantScoreWith(b)
        \/ Match(b)
        \/ Term(b)
        \/ Size(b)
        \/ Sort(b)
        \/ Aggregate(b)
        \/ SetQuery(b)
        \/ MatchAllCall(b)
        \/ Build(b)

SpecScore == InitScore /\ [][NextScore]_vars

----------------------------------------------------------------------------
(* The advisory methods.  Builder b1 is driven through the guarded methods *)
(* only; builder b2 is also handed queries by setQuery().                  *)

Validate(b) == Call(b, "validate", <<>>, validate(docs[b], ext))

InitAdvice ==
    /\ alive = BuilderIds
    /\ docs = [b \in BuilderIds |-> NewDocument]
    /\ ext = ExtInit
    /\ last = [b |-> "b1", method |-> "constructor", args |-> <<>>, err |-> NoError]
    /\ touched = {}
    /\ origin = [b \in BuilderIds |-> "constructor"]
    /\ budget = MaxAdviceSteps
    /\ client = NoClient

NextAdvice ==
    \E b \in BuilderIds :
        \/ Validate(b)
        \/ From(b)
        \/ Size(b)
        \/ Match(b)
        \/ MatchAllCall(b)
        \/ FunctionScore(b)
        \/ Reset(b)
        \/ (b = "b2" /\ SetQuery(b))

SpecAdvice == InitAdvice /\ [][NextAdvice]_vars

\* { a: { order: 'asc' } }
SortOptions ==
    [t |-> "object",
     v |-> (FieldA.v :> [t |-> "object", v |-> (<<"o", "r", "d", "e", "r">> :> Asc)])]

SortBy(b) == Call(b, "sortBy", <<SortOptions>>, sortBy(docs[b], ext, SortOptions))

GetComplexity(b) == Call(b, "getComplexity", <<>>, getComplexity(docs[b], ext))

InitComplexity ==
    /\ alive = {"b1"}
    /\ docs = [b \in BuilderIds |-> NewDocument]
    /\ ext = ExtInit
    /\ last = [b |-> "b1", method |-> "constructor", args |-> <<>>, err |-> NoError]
    /\ touched = {}
    /\ origin = [b \in BuilderIds |-> "constructor"]
    /\ budget = MaxComplexitySteps
    /\ client = NoClient

NextComplexity ==
    \E b \in BuilderIds :
        \/ GetComplexity(b)
        \/ Match(b)
        \/ Term(b)
        \/ Should(b)
        \/ MustNot(b)
        \/ Nested(b)
        \/ Raw(b)
        \/ Aggregate(b)
        \/ Sort(b)
        \/ SortBy(b)
        \/ SetQuery(b)
        \/ MatchAllCall(b)
        \/ FunctionScore(b)

SpecComplexity == InitComplexity /\ [][NextComplexity]_vars

----------------------------------------------------------------------------
(* Properties *)

\* What builder b builds in the current state
BuildOf(b) == Built(docs[b], ext)

\* { query: { match_all: {} } } and no other key
OnlyMatchAll ==
    [from |-> Undef, size |-> Undef,
     query |-> [t |-> "object", named |-> [t |-> "match_all"], bool |-> Undef],
     sort |-> Undef, source |-> Undef, aggs |-> Undef, highlight |-> Undef,
     track_total_hits |-> Undef, explain |-> Undef, profile |-> Undef]

IsEmptyArray(x) == x.t = "array" /\ Len(x.v) = 0

\* The live query of b is a bool wrapper whose four sections are all empty
LiveBoolIsEmpty(b) ==
    LET q == QueryOf(docs[b], ext)
    IN /\ q.t = "object"
       /\ q.named.t = "undefined"
       /\ q.bool.t = "object"
       /\ \A s \in Sections : IsEmptyArray(q.bool[s])

\* C1: a call that throws leaves build() as it was before the call.
NoPartialMutation ==
    [][\A b \in BuilderIds :
          (last'.b = b /\ last'.err # NoError)
              => Built(docs'[b], ext') = Built(docs[b], ext)]_vars

\* C2: build() changes neither the live document of any builder nor any object
\* of the caller, so what is called after it starts from the same state.
BuildIsRead ==
    [][last'.method = "build"
          => (docs' = docs /\ ext' = ext /\ alive' = alive)]_vars

BuildOnChangedBuilder ==
    /\ last.method = "build"
    /\ last.b \in touched
    /\ docs[last.b] # NewDocument

\* C3: a clone builds what its original builds, and afterwards a call on one
\* of the two never changes what the other builds.
CloneIndependence ==
    [][/\ \A b \in BuilderIds :
            (last'.method = "clone" /\ b \notin alive /\ b \in alive')
                => Built(docs'[b], ext') = Built(docs[last'.b], ext)
       /\ \A c \in alive \ {last'.b} :
            (origin[c] = last'.b \/ origin[last'.b] = c)
                => Built(docs'[c], ext') = Built(docs[c], ext)]_vars

\* C4: a call on one builder changes neither what another builder builds nor
\* an object of the caller.
NoSharedState ==
    [][/\ \A c \in alive \ {last'.b} : Built(docs'[c], ext') = Built(docs[c], ext)
       /\ ext' = ext]_vars

\* C5: a constructed builder on which nothing was called builds to exactly
\* { query: { match_all: {} } }.
FreshBuildsMatchAll ==
    \A b \in alive :
        (b \notin touched /\ origin[b] = "constructor") => BuildOf(b) = OnlyMatchAll

FreshBuilderBuilt ==
    /\ last.method = "build"
    /\ last.b \notin touched
    /\ origin[last.b] = "constructor"

\* C6 as stated: whenever the live query is a bool wrapper whose four sections
\* are all empty, build().query is { match_all: {} }.
EmptyBoolDegenerates ==
    \A b \in alive : LiveBoolIsEmpty(b) => BuildOf(b).query = MatchAll

\* C6 as amended: whenever the live query is a bool wrapper whose four sections
\* are all empty and which holds no minimum_should_match, build().query is
\* { match_all: {} }.
EmptyBoolWithoutMinimumDegenerates ==
    \A b \in alive :
        (/\ LiveBoolIsEmpty(b)
         /\ QueryOf(docs[b], ext).bool.minimum_should_match.t = "undefined")
            => BuildOf(b).query = MatchAll

EmptiedBuilderBuilt ==
    /\ last.method = "build"
    /\ last.b \in touched
    /\ LiveBoolIsEmpty(last.b)
    /\ QueryOf(docs[last.b], ext).bool.minimum_should_match.t = "undefined"

\* { bool: { minimum_should_match: n } }
OnlyMinimum(n) ==
    QueryObject(Undef,
        [t |-> "object", must |-> Undef, filter |-> Undef, should |-> Undef,
         must_not |-> Undef, minimum_should_match |-> n])

\* C7: build() never removes minimum_should_match: while the live bool object
\* holds it, build().query has a bool object that holds the same value, and is
\* exactly { bool: { minimum_should_match: n } } when the four sections are
\* empty; right after minimumShouldMatch(n) the value held is n.
MinimumShouldMatchPreserved ==
    /\ \A b \in alive :
        LET q == QueryOf(docs[b], ext)
            r == BuildOf(b).query
        IN (/\ q.t = "object"
            /\ q.bool.t = "object"
            /\ q.bool.minimum_should_match.t # "undefined")
               => /\ r.t = "object"
                  /\ r.bool.t = "object"
                  /\ r.bool.minimum_should_match = q.bool.minimum_should_match
                  /\ LiveBoolIsEmpty(b) => r = OnlyMinimum(q.bool.minimum_should_match)
    /\ last.method = "minimumShouldMatch"
          => /\ BuildOf(last.b).query.bool.minimum_should_match = last.args[1]
             /\ BuildOf(last.b).query # MatchAll

OnlyMinimumKept ==
    /\ last.method = "build"
    /\ LiveBoolIsEmpty(last.b)
    /\ QueryOf(docs[last.b], ext).bool.minimum_should_match = Whole(1)

\* A bool object with an empty section: in q itself, in the query a score
\* wrapper wraps, or in the query of a nested / has_child / has_parent clause
RECURSIVE HasEmptySection(_)
HasEmptySection(q) ==
    /\ q.t = "object"
    /\ \/ /\ q.bool.t = "object"
          /\ \E s \in Sections :
               \/ IsEmptyArray(q.bool[s])
               \/ /\ q.bool[s].t = "array"
                  /\ \E i \in 1..Len(q.bool[s].v) :
                       LET c == q.bool[s].v[i]
                       IN /\ "kind" \in DOMAIN c
                          /\ c.kind \in {"nested", "has_child", "has_parent"}
                          /\ HasEmptySection(c.body)
       \/ q.named.t = "function_score" /\ HasEmptySection(q.named.query)
       \/ q.named.t = "constant_score" /\ HasEmptySection(q.named.filter)

\* C8: no bool object of the document build() returns has an empty section.
NoEmptySectionBuilt ==
    \A b \in alive : ~HasEmptySection(BuildOf(b).query)

\* 0 <= v <= hi for an integer v
IntegerWithin(v, hi) ==
    IsInteger(v) /\ ~LessThan(v, 0) /\ ~GreaterThan(v, hi)

\* C9: size(v) succeeds exactly when v is an integer in 0..10000 and from(v)
\* exactly when v is an integer >= 0; otherwise the call throws a
\* ValidationError and leaves the stored from and size as they were.
PaginationGuards ==
    [][/\ last'.method = "size" =>
            /\ (last'.err = NoError) <=> IntegerWithin(last'.args[1], MaxSize)
            /\ last'.err \in {NoError, ValidationError}
       /\ last'.method = "from" =>
            /\ (last'.err = NoError) <=>
                   (IsInteger(last'.args[1]) /\ ~LessThan(last'.args[1], 0))
            /\ last'.err \in {NoError, ValidationError}
       /\ (last'.method \in {"size", "from"} /\ last'.err # NoError) =>
            /\ docs'[last'.b].from = docs[last'.b].from
            /\ docs'[last'.b].size = docs[last'.b].size]_vars

\* C10: build().size, when present, is an integer in 0..10000 and build().from,
\* when present, an integer >= 0; a size(v) or from(v) that succeeded leaves
\* the key in build() with the value v, and only size(), from(), reset() change it.
PaginationInvariant ==
    [][/\ \A b \in alive' :
            LET r == Built(docs'[b], ext')
            IN /\ r.size.t # "undefined" => IntegerWithin(r.size, MaxSize)
               /\ r.from.t # "undefined" => IsInteger(r.from) /\ ~LessThan(r.from, 0)
       /\ (last'.method = "size" /\ last'.err = NoError) =>
            /\ Built(docs'[last'.b], ext').size.t # "undefined"
            /\ Built(docs'[last'.b], ext').size = last'.args[1]
       /\ (last'.method = "from" /\ last'.err = NoError) =>
            /\ Built(docs'[last'.b], ext').from.t # "undefined"
            /\ Built(docs'[last'.b], ext').from = last'.args[1]
       /\ \A b \in alive :
            /\ ~(last'.b = b /\ last'.method \in {"size", "reset"}) =>
                   Built(docs'[b], ext').size = Built(docs[b], ext).size
            /\ ~(last'.b = b /\ last'.method \in {"from", "reset"}) =>
                   Built(docs'[b], ext').from = Built(docs[b], ext).from]_vars

\* The clauses of a section of the live query, none when it has no such section
SectionOf(doc, heap, section) ==
    LET q == QueryOf(doc, heap)
    IN IF q.t = "object" /\ q.bool.t = "object" /\ q.bool[section].t = "array"
       THEN q.bool[section].v
       ELSE <<>>

\* The call made last succeeded and was a call of this method
Succeeded(l, method) == l.method = method /\ l.err = NoError

CopiesOf(sub, section) ==
    JSONArray(Arr(SectionOf(sub.doc, sub.ext, section)), sub.ext).v

\* The section a merging method extends
TargetOf(method) == IF method = "should" THEN "should" ELSE "must_not"

\* C12: a successful should(cb) appends to the end of the should section the
\* clauses that cb left in the must section of its sub-builder, followed by
\* those it left in the filter section, each in the order of the calls and as
\* the clause objects themselves; mustNot(cb) does so to must_not.
MergeIsFlatAppend ==
    [][(last'.method \in {"should", "mustNot"} /\ last'.err = NoError) =>
          LET b == last'.b
              s == ensureBoolQuery(docs[b], ext)
              sub == RunCallback(NewDocument, s.ext, last'.args[1])
              was == SectionOf(docs[b], sub.ext, TargetOf(last'.method))
              now == SectionOf(docs'[b], ext', TargetOf(last'.method))
          IN /\ now = was \o CopiesOf(sub, "must") \o CopiesOf(sub, "filter")
             /\ Len(now) = Len(SectionOf(docs[b], ext, TargetOf(last'.method)))
                              + Len(SectionOf(sub.doc, sub.ext, "must"))
                              + Len(SectionOf(sub.doc, sub.ext, "filter"))
             /\ \A i \in 1..Len(now) : "kind" \in DOMAIN now[i]]_vars

\* should() has merged two must clauses and a filter clause behind a clause
\* that was in the section before
MergedBehindEarlierClause ==
    /\ Succeeded(last, "should")
    /\ last.args[1] = AddsTermThenMatches
    /\ Len(SectionOf(docs[last.b], ext, "should")) > 3

\* r is an object that is not null and not an array, has a key, has no key
\* other than gte, gt, lte, lt, boost, and gives a value (one that is not
\* undefined) neither to both gte and gt nor to both lte and lt
IsRangeSpecification(r) ==
    /\ r.t = "object"
    /\ DOMAIN r.v # {}
    /\ DOMAIN r.v \subseteq {"gte", "gt", "lte", "lt", "boost"}
    /\ ~("gte" \in DOMAIN r.v /\ "gt" \in DOMAIN r.v
            /\ r.v["gte"] # Undef /\ r.v["gt"] # Undef)
    /\ ~("lte" \in DOMAIN r.v /\ "lt" \in DOMAIN r.v
            /\ r.v["lte"] # Undef /\ r.v["lt"] # Undef)

\* f is a string that is not empty after trimming
IsFieldName(f) == f.t = "string" /\ Trim(f.v) # <<>>

\* C13: range(f, r) with a valid field f succeeds exactly when r is a range
\* specification (a non-null object with a key, only keys among gte, gt, lte,
\* lt, boost, not both gte and gt, not both lte and lt) and then appends
\* { range: { f: r } } to filter; otherwise it throws a ValidationError and
\* filter is as it was.
RangeGuard ==
    [][(last'.method = "range" /\ IsFieldName(last'.args[1])) =>
          LET b == last'.b
          IN /\ (last'.err = NoError) <=> IsRangeSpecification(last'.args[2])
             /\ last'.err \in {NoError, ValidationError}
             /\ last'.err = NoError =>
                    SectionOf(docs'[b], ext', "filter")
                        = Append(SectionOf(docs[b], ext, "filter"),
                                 Clause("range", last'.args[1], last'.args[2]))
             /\ last'.err # NoError => (docs' = docs /\ ext' = ext)]_vars

\* range() rejected a specification with both gte and gt, on a builder whose
\* filter holds the range clause of a call that was accepted
ContradictoryRangeRejected ==
    /\ last.method = "range"
    /\ last.err = ValidationError
    /\ last.args[2].t = "object"
    /\ DOMAIN last.args[2].v = {"gte", "gt"}
    /\ Len(SectionOf(docs[last.b], ext, "filter")) = 1
    /\ "kind" \in DOMAIN SectionOf(docs[last.b], ext, "filter")[1]
    /\ SectionOf(docs[last.b], ext, "filter")[1].kind = "range"

\* C14: whenever a builder method rejects its arguments (it throws an error of
\* its own making), what it throws is a ValidationError.
SingleErrorKind ==
    [][last'.err \in {ValidationError, GenericError}
          => last'.err = ValidationError]_vars

\* The methods that take a field name as their first argument, and the
\* aggregation helpers, which take it as their second
FieldFirstMethods ==
    {"match", "matchPhrase", "term", "terms", "range", "exists", "wildcard", "prefix",
     "fuzzy", "regexp", "nested", "geoDistance", "geoBoundingBox", "geoPolygon", "sort"}
FieldSecondMethods ==
    {"termsAgg", "dateHistogramAgg", "avgAgg", "sumAgg", "maxAgg", "minAgg",
     "cardinalityAgg", "valueCountAgg", "histogramAgg", "rangeAgg", "nestedAgg"}

\* The clauses and aggregations that name a field
FieldKinds ==
    {"match", "match_phrase", "term", "terms", "range", "wildcard", "prefix", "fuzzy",
     "regexp", "nested", "geo_distance", "geo_bounding_box", "geo_polygon"}
FieldAggKinds ==
    {"terms", "date_histogram", "avg", "sum", "max", "min", "cardinality",
     "value_count", "histogram", "range"}

\* Every field name that the live document of b holds in a clause of must or
\* filter, in a sort entry or in an aggregation is a valid field name
FieldNamesValid(b) ==
    /\ \A s \in {"must", "filter"} :
          \A i \in 1..Len(SectionOf(docs[b], ext, s)) :
              LET c == SectionOf(docs[b], ext, s)[i]
              IN /\ ("kind" \in DOMAIN c /\ c.kind \in FieldKinds) => IsFieldName(c.field)
                 /\ ("kind" \in DOMAIN c /\ c.kind = "exists") => IsFieldName(c.body.field)
    /\ docs[b].sort.t = "array" =>
          \A i \in 1..Len(docs[b].sort.v) : IsFieldName(docs[b].sort.v[i].field)
    /\ docs[b].aggs.t = "object" =>
          \A n \in DOMAIN docs[b].aggs.v :
              LET g == docs[b].aggs.v[n]
              IN /\ g.kind \in FieldAggKinds => IsFieldName(g.field)
                 /\ g.kind = "nested" => IsFieldName(g.path)

\* C15: a call of a method that takes a field name throws, and changes
\* nothing, when the name is not a string or is empty after trimming; so every
\* field name these methods have placed in the document is a string that is
\* not empty after trimming.
FieldNameGuard ==
    [][/\ (last'.method \in FieldFirstMethods /\ ~IsFieldName(last'.args[1]))
            => (last'.err # NoError /\ docs' = docs /\ ext' = ext)
       /\ (last'.method \in FieldSecondMethods /\ ~IsFieldName(last'.args[2]))
            => (last'.err # NoError /\ docs' = docs /\ ext' = ext)
       /\ \A b \in alive' : FieldNamesValid(b)']_vars

\* An aggregation helper rejected a blank field name on a builder that holds
\* a clause
BlankFieldRejected ==
    /\ last.method = "histogramAgg"
    /\ last.args[2] = Blank
    /\ last.err = ValidationError
    /\ Len(SectionOf(docs[last.b], ext, "filter")) = 1

\* The methods that append to must and the methods that append to filter, with
\* the kind of clause each appends
MustMethods ==
    [match |-> "match", matchPhrase |-> "match_phrase", multiMatch |-> "multi_match",
     wildcard |-> "wildcard", prefix |-> "prefix", fuzzy |-> "fuzzy",
     regexp |-> "regexp", queryString |-> "query_string",
     simpleQueryString |-> "simple_query_string", nested |-> "nested",
     hasChild |-> "has_child", hasParent |-> "has_parent", script |-> "script",
     moreLikeThis |-> "more_like_this"]
FilterMethods ==
    [term |-> "term", terms |-> "terms", range |-> "range", exists |-> "exists",
     geoDistance |-> "geo_distance", geoBoundingBox |-> "geo_bounding_box",
     geoPolygon |-> "geo_polygon"]

\* The live query of the document is a bool wrapper and nothing else
IsBoolWrapper(doc, heap) ==
    LET q == QueryOf(doc, heap)
    IN q.t = "object" /\ q.named.t = "undefined" /\ q.bool.t = "object"

\* new is old with one clause of the given kind appended
OneAppended(old, new, kind) ==
    /\ Len(new) = Len(old) + 1
    /\ SubSeq(new, 1, Len(old)) = old
    /\ new[Len(new)].kind = kind

\* From before to after, the section has gained one clause of the kind at its
\* end and everything else that the document holds is as it was
AppendedTo(before, heapBefore, after, heapAfter, section, kind) ==
    /\ OneAppended(SectionOf(before, heapBefore, section),
                   SectionOf(after, heapAfter, section), kind)
    /\ \A other \in Sections \ {section} :
          SectionOf(after, heapAfter, other) = SectionOf(before, heapBefore, other)
    /\ QueryOf(after, heapAfter).bool.minimum_should_match
          = QueryOf(before, heapBefore).bool.minimum_should_match
    /\ after.from = before.from
    /\ after.size = before.size
    /\ after.sort = before.sort
    /\ after.aggs = before.aggs

RoundTrips(b, pretty) ==
    JSONParse(toJSON(docs[b], ext, pretty).ret)
        = PlainDocument(Built(docs[b], ext), ext)

\* C17: in every reachable state, for pretty false and for pretty true, the
\* text toJSON(pretty) returns parses to a value that deep-equals what build()
\* returns.
JSONRoundTrip ==
    \A b \in alive : RoundTrips(b, Bool(FALSE)) /\ RoundTrips(b, Bool(TRUE))

\* toJSON(true) was called on a builder that holds an undefined must clause, a
\* size and a highlight
PrettyTextOfFilledDocument ==
    /\ Succeeded(last, "toJSON")
    /\ last.args[1] = Bool(TRUE)
    /\ Len(SectionOf(docs[last.b], ext, "must")) = 1
    /\ SectionOf(docs[last.b], ext, "must")[1] = Undef
    /\ docs[last.b].highlight.t = "object"

\* C18: reset() leaves the builder in the state a new builder is in, whatever
\* it held before: its document is the one the constructor installs, so that
\* build() returns { query: { match_all: {} } } and every later call sees what
\* it would see on a fresh builder; the caller's objects are not touched.
ResetRestoresNew ==
    [][\A b \in alive :
          (last'.b = b /\ last'.method = "reset") =>
              /\ last'.err = NoError
              /\ docs'[b] = NewDocument
              /\ Built(docs'[b], ext') = OnlyMatchAll
              /\ ext' = ext]_vars

\* reset() was called after the builder had been given a caller's object as its
\* query and had appended a clause to it
ResetAfterSharedQuery ==
    /\ Succeeded(last, "reset")
    /\ Len(ext[2].bool.must.v) = 2
    /\ docs[last.b] = NewDocument

\* aggregate and the helpers that end in it, with the kind each helper stores
AggregationMethods ==
    [aggregate |-> "", termsAgg |-> "terms", dateHistogramAgg |-> "date_histogram",
     avgAgg |-> "avg", sumAgg |-> "sum", maxAgg |-> "max", minAgg |-> "min",
     cardinalityAgg |-> "cardinality", valueCountAgg |-> "value_count",
     histogramAgg |-> "histogram", rangeAgg |-> "range", filtersAgg |-> "filters",
     nestedAgg |-> "nested"]

\* build().aggs, as the map from the names it has to their entries
BuiltAggs(doc, heap) ==
    IF Built(doc, heap).aggs.t = "object" THEN Built(doc, heap).aggs.v ELSE <<>>

\* C19: after a successful aggregate or typed aggregation call under a name,
\* build().aggs has the entries it had under the other names and one entry
\* under this name, which is the specification of this call; a call of
\* aggregate under a name that is already in use raises no error.
AggregationMapSemantics ==
    [][\A b \in alive :
          (last'.b = b /\ last'.method \in DOMAIN AggregationMethods) =>
              LET name == last'.args[1]
                  old == BuiltAggs(docs[b], ext)
                  new == BuiltAggs(docs'[b], ext')
              IN /\ last'.err = NoError =>
                      /\ DOMAIN new = DOMAIN old \cup {name.v}
                      /\ \A n \in DOMAIN old \ {name.v} : new[n] = old[n]
                      /\ last'.method = "aggregate" => new[name.v] = last'.args[2]
                      /\ last'.method # "aggregate" =>
                             new[name.v].kind = AggregationMethods[last'.method]
                 /\ (/\ last'.method = "aggregate"
                     /\ name.t = "string"
                     /\ name.v \in DOMAIN old
                     /\ last'.args[2].t = "object") => last'.err = NoError]_vars

\* C20: what build() returns under query is a bool wrapper alone or one named
\* query alone, never an object with a bool key next to another query key.
QueryShapeInvariant ==
    \A b \in alive :
        LET q == Built(docs[b], ext).query
        IN q.t = "object" => ~(q.bool.t # "undefined" /\ q.named.t # "undefined")

\* options?.<key> when it is truthy, 'multiply' otherwise
GivenOrMultiply(options, key) ==
    IF options.t = "object" /\ ~Falsy(options[key]) THEN options[key] ELSE Multiply

\* from, size, sort and aggs of builder b are what they were
PaginationSortAggsKept(b) ==
    /\ docs'[b].from = docs[b].from
    /\ docs'[b].size = docs[b].size
    /\ docs'[b].sort = docs[b].sort
    /\ docs'[b].aggs = docs[b].aggs

\* C21: functionScore(functions, options) replaces the query by an object
\* whose single key is function_score, holding the whole query of before as
\* its query, the given functions, and boost_mode and score_mode that are
\* 'multiply' unless given; constantScore(boost) replaces it by
\* { constant_score: { filter: <query of before>, boost } }; from, size, sort
\* and aggs stay, and build() returns the wrapper around a copy of the query
\* of before, so that a second wrap holds the first wrapper inside it.
ScoreRewrap ==
    [][\A b \in alive :
          /\ (last'.b = b /\ last'.method = "functionScore") =>
                /\ last'.err = NoError
                /\ docs'[b].query =
                       QueryObject([t |-> "function_score", query |-> docs[b].query,
                                    functions |-> last'.args[1],
                                    boost_mode |-> GivenOrMultiply(last'.args[2], "boost_mode"),
                                    score_mode |-> GivenOrMultiply(last'.args[2], "score_mode")],
                                   Undef)
                /\ Built(docs'[b], ext').query.named.query = JSONQuery(docs[b].query, ext)
                /\ Built(docs'[b], ext').query.bool = Undef
                /\ PaginationSortAggsKept(b)
          /\ (last'.b = b /\ last'.method = "constantScore") =>
                /\ last'.err = NoError
                /\ docs'[b].query =
                       QueryObject([t |-> "constant_score", filter |-> docs[b].query,
                                    boost |-> last'.args[1]], Undef)
                /\ Built(docs'[b], ext').query.named.filter = JSONQuery(docs[b].query, ext)
                /\ Built(docs'[b], ext').query.bool = Undef
                /\ PaginationSortAggsKept(b)]_vars

\* A function_score wrapper was put around a constant_score wrapper that holds
\* a bool query with a must clause
WrappedTwice ==
    /\ Succeeded(last, "functionScore")
    /\ docs[last.b].query.named.t = "function_score"
    /\ docs[last.b].query.named.query.t = "object"
    /\ docs[last.b].query.named.query.named.t = "constant_score"
    /\ docs[last.b].query.named.query.named.filter.t = "object"
    /\ docs[last.b].query.named.query.named.filter.bool.t = "object"
    /\ Len(docs[last.b].query.named.query.named.filter.bool.must.v) = 1

\* The live query of the document is a scoring wrapper and nothing else
IsScoreWrapper(doc) ==
    /\ doc.query.t = "object"
    /\ doc.query.named.t \in {"function_score", "constant_score"}
    /\ doc.query.bool.t = "undefined"

\* C22: a match() or term() that succeeds on a builder whose query is a
\* function_score or constant_score wrapper puts its clause in a new bool
\* object that sits beside the wrapper in the same query object; the wrapper
\* and the query it wraps are as they were, and build() returns both the
\* wrapper and the bool with the clause.
ClauseBesideWrapper ==
    [][\A b \in alive :
          (/\ last'.b = b
           /\ last'.err = NoError
           /\ last'.method \in {"match", "term"}
           /\ IsScoreWrapper(docs[b])) =>
              LET section == IF last'.method = "match" THEN "must" ELSE "filter"
              IN /\ docs'[b].query.named = docs[b].query.named
                 /\ docs'[b].query.bool.t = "object"
                 /\ Len(docs'[b].query.bool[section].v) = 1
                 /\ docs'[b].query.bool[section].v[1].kind = last'.method
                 /\ \A other \in Sections \ {section} :
                        docs'[b].query.bool[other] = Arr(<<>>)
                 /\ ext' = ext
                 /\ Built(docs'[b], ext').query.named = Built(docs[b], ext).query.named
                 /\ Built(docs'[b], ext').query.bool[section]
                        = docs'[b].query.bool[section]]_vars

\* match() succeeded on a function_score wrapper around a bool query that holds
\* a filter clause
MatchBesideFunctionScore ==
    /\ Succeeded(last, "match")
    /\ docs[last.b].query.t = "object"
    /\ docs[last.b].query.named.t = "function_score"
    /\ docs[last.b].query.bool.t = "object"
    /\ Len(docs[last.b].query.bool.must.v) = 1
    /\ docs[last.b].query.named.query.t = "object"
    /\ docs[last.b].query.named.query.bool.t = "object"
    /\ Len(docs[last.b].query.named.query.bool.filter.v) = 1
    /\ Len(docs[last.b].query.named.query.bool.must.v) = 0

AddingMethods ==
    {"match", "term", "should", "mustNot", "nested", "raw", "aggregate", "sort", "sortBy"}

\* 1 + the clauses of the four sections of what build() returns + 2 for each
\* aggregation name + the sort entries
CountedScore(doc, heap) ==
    LET q == Built(doc, heap).query
        Count(section) ==
            IF q.t = "object" /\ q.bool.t = "object" /\ q.bool[section].t = "array"
            THEN Len(q.bool[section].v) ELSE 0
    IN 1 + Count("must") + Count("filter") + Count("should") + Count("must_not")
         + 2 * Cardinality(DOMAIN BuiltAggs(doc, heap))
         + (IF Built(doc, heap).sort.t = "array" THEN Len(Built(doc, heap).sort.v) ELSE 0)

\* C24: getComplexity() is 1 + the clauses in the four sections of build() +
\* twice the aggregation names + the sort entries, and a successful call that
\* adds a clause (should, mustNot, nested and raw included), an aggregation or
\* a sort entry never lowers it.
ComplexityIsMonotone ==
    [][\A b \in alive :
          /\ getComplexity(docs'[b], ext').ret = CountedScore(docs'[b], ext')
          /\ (last'.b = b /\ last'.err = NoError /\ last'.method \in AddingMethods)
                => getComplexity(docs'[b], ext').ret >= getComplexity(docs[b], ext).ret]_vars

\* A should() that merged two clauses raised the score of a builder that holds
\* a sort entry
ScoreRaisedByShould ==
    /\ Succeeded(last, "should")
    /\ Len(SectionOf(docs[last.b], ext, "should")) = 2
    /\ docs[last.b].sort.t = "array"
    /\ getComplexity(docs[last.b], ext).ret = 4

\* The methods that embed what their callback built, with the kind of the
\* wrapper clause
EmbeddingMethods ==
    [nested |-> "nested", hasChild |-> "has_child", hasParent |-> "has_parent"]

\* C25: a successful nested, hasChild or hasParent call appends one wrapper
\* clause at the end of the parent's must; the query it holds is what build()
\* returns as the query of the sub-builder the callback worked on, which has no
\* empty section and is { match_all: {} } when the callback did nothing; the
\* parent's from, size, sort and aggs are as before.
EmbedsFinalizedQuery ==
    [][\A b \in alive :
          (/\ last'.b = b
           /\ last'.err = NoError
           /\ last'.method \in DOMAIN EmbeddingMethods) =>
              LET sub == RunCallback(NewDocument, ensureBoolQuery(docs[b], ext).ext,
                                     last'.args[2])
                  must == SectionOf(docs'[b], ext', "must")
              IN /\ OneAppended(SectionOf(docs[b], ext, "must"), must,
                                EmbeddingMethods[last'.method])
                 /\ must[Len(must)].field = last'.args[1]
                 /\ must[Len(must)].body = Built(sub.doc, sub.ext).query
                 /\ ~HasEmptySection(must[Len(must)].body)
                 /\ last'.args[2] = <<>> => must[Len(must)].body = MatchAll
                 /\ PaginationSortAggsKept(b)]_vars

----------------------------------------------------------------------------
(* validation.ts: what the SearchClient validates *)

MaxIndexLength == 255

\* [a-z0-9] and [a-z0-9._-]
IndexStartChars ==
    {"a", "b", "c", "d", "e", "f", "g", "h", "i", "j", "k", "l", "m",
     "n", "o", "p", "q", "r", "s", "t", "u", "v", "w", "x", "y", "z",
     "0", "1", "2", "3", "4", "5", "6", "7", "8", "9"}
IndexRestChars == IndexStartChars \cup {".", "_", "-"}

\* /^[a-z0-9][a-z0-9._-]*$/.test(s)
IndexPattern(s) ==
    /\ s # <<>>
    /\ s[1] \in IndexStartChars
    /\ \A i \in 2..Len(s) : s[i] \in IndexRestChars

\* validateIndexName(index, context): the error thrown, NoError when none is
validateIndexName(index) ==
    IF Falsy(index) \/ index.t # "string" THEN ValidationError
    ELSE IF Trim(index.v) = <<>> THEN ValidationError
    ELSE IF ~IndexPattern(index.v) THEN ValidationError
    ELSE IF Len(index.v) > MaxIndexLength THEN ValidationError
    ELSE NoError

\* validateSearchConfig(config): the error thrown, NoError when none is
validateSearchConfig(config) ==
    IF Falsy(config.endpoint) \/ config.endpoint.t # "string" THEN ValidationError
    ELSE IF /\ config.retries # Undef
            /\ (~IsInteger(config.retries) \/ LessThan(config.retries, 0))
         THEN ValidationError
    ELSE NoError

----------------------------------------------------------------------------
(* search-client.ts *)

DefaultRetries == 3

CallIds == {"s1", "s2"}
ListenerIds == {"l1", "l2"}

\* String.prototype.includes
Includes(s, sub) ==
    \E i \in 1..(Len(s) - Len(sub) + 1) : SubSeq(s, i, i + Len(sub) - 1) = sub

\* The functions a caller may pass as responseTransformer
PickHits == [t |-> "function", name |-> "pickHits"]

\* f(response) for the default transformer (response) => response and for
\* the caller's (response) => response.hits
Apply(f, response) ==
    IF f = PickHits THEN response.hits ELSE response

\* The state a SearchClient is constructed with
InitialState == [data |-> Null, error |-> Null, loading |-> FALSE]

\* A search() call that has not been made yet
Unstarted ==
    [pc |-> "unstarted", dsl |-> Undef,
     attempt |-> 0, lastError |-> Null, posts |-> 0, answer |-> Undef,
     result |-> Undef, audience |-> {}]

\* new SearchClient(config), for a config that validateSearchConfig accepts
SearchClient(config) ==
    [config |->
        [endpoint |-> config.endpoint,
         index |-> IF Falsy(config.index) THEN Str(<<>>) ELSE config.index,
         retries |-> IF Falsy(config.retries) THEN Whole(DefaultRetries)
                     ELSE config.retries,
         responseTransformer |->
             IF config.responseTransformer = Undef
             THEN [t |-> "function", name |-> "identity"]
             ELSE config.responseTransformer],
     given |-> config,
     state |-> InitialState,
     stateListeners |-> {},
     heard |-> [l \in ListenerIds |-> [c \in CallIds |-> <<>>]],
     calls |-> [c \in CallIds |-> Unstarted]]

\* transformResponse(response)
transformResponse(cl, response) ==
    Apply(cl.config.responseTransformer, response)

\* updateState(partial) made by call c: the state is replaced by the merge
\* and every listener is called with it; heard[l][c] is what listener l has
\* been called with by call c
updateState(cl, c, partial) ==
    LET state == [k \in DOMAIN cl.state |->
                     IF k \in DOMAIN partial THEN partial[k] ELSE cl.state[k]]
    IN [cl EXCEPT
          !.state = state,
          !.heard = [l \in ListenerIds |->
                        IF l \in cl.stateListeners
                        THEN [cl.heard[l] EXCEPT ![c] = Append(@, state)]
                        ELSE cl.heard[l]]]

\* handleError(error)
handleError(error) ==
    [message |-> error.message, status |-> error.status, details |-> error.details]

NetworkErrors ==
    {<<"E", "C", "O", "N", "N", "R", "E", "S", "E", "T">>,
     <<"E", "C", "O", "N", "N", "R", "E", "F", "U", "S", "E", "D">>,
     <<"E", "T", "I", "M", "E", "D", "O", "U", "T">>,
     <<"E", "N", "O", "T", "F", "O", "U", "N", "D">>}

\* isRetryableError(error)
isRetryableError(error) ==
    IF ~Falsy(error.status) /\ ~LessThan(error.status, 400) /\ LessThan(error.status, 500)
    THEN error.status = Whole(429) \/ error.status = Whole(408)
    ELSE IF ~Falsy(error.status) /\ ~LessThan(error.status, 500) THEN TRUE
    ELSE IF Falsy(error.status)
         THEN \E netError \in NetworkErrors : Includes(error.message, netError)
    ELSE FALSE

\* The loop of search() issues its next request, axiosInstance.post(path, dsl);
\* posts counts the requests of the call
post(cl, c) ==
    [cl EXCEPT !.calls[c].pc = "posting",
               !.calls[c].posts = cl.calls[c].posts + 1]

\* search(query, index) up to its first await; dsl is query.build() or the
\* query itself
search(cl, c, dsl, index) ==
    LET searchIndex == IF Falsy(index) THEN cl.config.index ELSE index
        err == IF Falsy(searchIndex) THEN NoError ELSE validateIndexName(searchIndex)
        started == [cl EXCEPT !.calls[c].audience = cl.stateListeners]
    IN IF err # NoError
       THEN [started EXCEPT !.calls[c].pc = "rejected",
                            !.calls[c].result = [t |-> "error", name |-> err]]
       ELSE LET loading == updateState([started EXCEPT !.calls[c].dsl = dsl],
                                       c, [loading |-> TRUE, error |-> Null])
            IN post(loading, c)

\* search() resumes when its request settles with answer: a response, or
\* the error axios rejects with
requestSettled(cl, c, answer) ==
    LET heardOf == [cl EXCEPT !.calls[c].answer = answer]
    IN IF answer.ok
       THEN LET transformedData == transformResponse(cl, answer.data)
                done == updateState(heardOf, c,
                            [data |-> transformedData, loading |-> FALSE, error |-> Null])
            IN [done EXCEPT !.calls[c].pc = "resolved",
                            !.calls[c].result = transformedData]
       ELSE LET lastError == handleError(answer)
            IN IF \/ ~isRetryableError(lastError)
                  \/ cl.calls[c].attempt = cl.config.retries.n
               THEN LET done == updateState(heardOf, c,
                                    [loading |-> FALSE, error |-> lastError])
                    IN [done EXCEPT !.calls[c].pc = "rejected",
                                    !.calls[c].lastError = lastError,
                                    !.calls[c].result = lastError]
               ELSE [heardOf EXCEPT !.calls[c].pc = "delaying",
                                    !.calls[c].lastError = lastError]

\* A retry that tells the listeners it is loading again
delayElapsedNotifying(cl, c) ==
    post(updateState([cl EXCEPT !.calls[c].attempt = cl.calls[c].attempt + 1],
                     c, [loading |-> TRUE, error |-> Null]), c)

\* search() resumes when its delay has elapsed: attempt++, and the loop goes
\* round while attempt <= retries
delayElapsed(cl, c) ==
    LET next == [cl EXCEPT !.calls[c].attempt = cl.calls[c].attempt + 1]
    IN IF next.calls[c].attempt <= cl.config.retries.n
       THEN post(next, c)
       ELSE LET done == updateState(next, c,
                            [loading |-> FALSE, error |-> cl.calls[c].lastError])
            IN [done EXCEPT !.calls[c].pc = "rejected",
                            !.calls[c].result = cl.calls[c].lastError]

\* subscribe(listener)
subscribe(cl, l) ==
    [cl EXCEPT !.stateListeners = cl.stateListeners \cup {l}]

\* The function subscribe(listener) returned is called; the listener no
\* longer hears the whole of the calls in flight
unsubscribe(cl, l) ==
    [cl EXCEPT
       !.stateListeners = cl.stateListeners \ {l},
       !.calls = [c \in CallIds |->
                     IF cl.calls[c].pc \in {"posting", "delaying"}
                     THEN [cl.calls[c] EXCEPT !.audience = cl.calls[c].audience \ {l}]
                     ELSE cl.calls[c]]]

----------------------------------------------------------------------------
(* A SearchClient, its listeners and two search() calls that may overlap *)

Endpoint == Str(<<"h", "t", "t", "p", ":", "/", "/", "e", "s">>)
Logs == Str(<<"l", "o", "g", "s">>)
UpperCaseIndex == Str(<<"L", "o", "g", "s">>)

Config(index, retries, responseTransformer) ==
    [endpoint |-> Endpoint, index |-> index, retries |-> retries,
     responseTransformer |-> responseTransformer]

ConfigInputs ==
    {Config(Undef, Undef, Undef),
     Config(Undef, Whole(0), PickHits),
     Config(Logs, Whole(1), Undef),
     Config(Undef, Whole(-1), Undef),
     Config(Undef, Num(1, 2), Undef)}

IndexInputs == {Undef, Logs, UpperCaseIndex, Blank}

Body == [t |-> "object", hits |-> Arr(<<Str(<<"d", "o", "c">>)>>), took |-> Whole(1)]

Response(data) == [ok |-> TRUE, data |-> data]
Failure(message, status) ==
    [ok |-> FALSE, message |-> message, status |-> status, details |-> Undef]

Answers ==
    {Response(Body),
     Failure(<<"f", "a", "i", "l", "e", "d">>, Whole(500)),
     Failure(<<"f", "a", "i", "l", "e", "d">>, Whole(404)),
     Failure(<<"f", "a", "i", "l", "e", "d">>, Whole(429)),
     Failure(<<"r", "e", "a", "d", " ", "E", "C", "O", "N", "N", "R", "E", "S", "E", "T">>, Undef),
     Failure(<<"N", "e", "t", "w", "o", "r", "k", " ", "E", "r", "r", "o", "r">>, Undef)}

MaxClientSteps == 2

BuilderUnchanged == UNCHANGED <<alive, docs, ext, last, touched, origin>>

\* The calls are named in the order they are made
Search(c) ==
    \E index \in IndexInputs :
        /\ client.calls[c].pc = "unstarted"
        /\ c = "s2" => client.calls["s1"].pc # "unstarted"
        /\ client' = search(client, c, Built(docs["b1"], ext), index)
        /\ UNCHANGED budget
        /\ BuilderUnchanged

RequestSettles(c) ==
    \E answer \in Answers :
        /\ client.calls[c].pc = "posting"
        /\ client' = requestSettled(client, c, answer)
        /\ UNCHANGED budget
        /\ BuilderUnchanged

DelayElapses(c) ==
    /\ client.calls[c].pc = "delaying"
    /\ client' = delayElapsed(client, c)
    /\ UNCHANGED budget
    /\ BuilderUnchanged

Subscribe(l) ==
    /\ l \notin client.stateListeners
    /\ budget > 0
    /\ budget' = budget - 1
    /\ client' = subscribe(client, l)
    /\ BuilderUnchanged

Unsubscribe(l) ==
    /\ l \in client.stateListeners
    /\ budget > 0
    /\ budget' = budget - 1
    /\ client' = unsubscribe(client, l)
    /\ BuilderUnchanged

InitClient ==
    /\ alive = {"b1"}
    /\ docs = [b \in BuilderIds |-> NewDocument]
    /\ ext = ExtInit
    /\ last = [b |-> "b1", method |-> "constructor", args |-> <<>>, err |-> NoError]
    /\ touched = {}
    /\ origin = [b \in BuilderIds |-> "constructor"]
    /\ budget = MaxClientSteps
    /\ \E config \in ConfigInputs :
          /\ validateSearchConfig(config) = NoError
          /\ client = SearchClient(config)

NextClient ==
    \/ \E c \in CallIds : Search(c) \/ RequestSettles(c) \/ DelayElapses(c)
    \/ \E l \in ListenerIds : Subscribe(l) \/ Unsubscribe(l)

\* Every request settles (axios is created with a timeout) and every delay
\* elapses (setTimeout fires)
SpecClient ==
    /\ InitClient
    /\ [][NextClient]_vars
    /\ \A c \in CallIds : WF_vars(RequestSettles(c)) /\ WF_vars(DelayElapses(c))

----------------------------------------------------------------------------
(* Properties of the SearchClient *)

Settled(call) == call.pc \in {"resolved", "rejected"}
InFlight(call) == call.pc \in {"posting", "delaying"}

\* The attempts of a call obey the bound n: at most n + 1 requests, none
\* after a response or an error that is not retryable, exactly n + 1 when
\* every one failed with a retryable error, and the rejection carries the
\* error of the last request
BoundedBy(call, n) ==
    /\ call.posts <= n + 1
    /\ InFlight(call) /\ call.answer # Undef =>
          ~call.answer.ok /\ isRetryableError(handleError(call.answer))
    /\ call.pc = "resolved" => call.answer.ok
    /\ call.pc = "rejected" /\ call.posts > 0 =>
          /\ ~call.answer.ok
          /\ call.result = handleError(call.answer)
          /\ isRetryableError(call.result) => call.posts = n + 1

\* C26: a client constructed from a config with retries = N makes at most
\* N + 1 requests per search() call, stops at the first response or the first
\* error that is not retryable, makes exactly N + 1 requests when every one
\* fails with a retryable error, and rejects with the error of the last one
RetryBound ==
    \A c \in CallIds :
        client.given.retries # Undef =>
            BoundedBy(client.calls[c], client.given.retries.n)

\* The same for the retries the constructor resolved the config to
ResolvedRetryBound ==
    \A c \in CallIds : BoundedBy(client.calls[c], client.config.retries.n)

\* A search() call that has issued a request settles
SearchSettles ==
    \A c \in CallIds : InFlight(client.calls[c]) ~> Settled(client.calls[c])

\* What a listener that was subscribed for the whole of a call has been
\* called with by that call, up to now
HeardInOrder(cl, call, calledWith) ==
    /\ Len(calledWith) = IF Settled(call) THEN 2 ELSE 1
    /\ calledWith[1].loading /\ calledWith[1].error = Null
    /\ Settled(call) => ~calledWith[2].loading
    /\ call.pc = "resolved" =>
          /\ calledWith[2].data = Apply(cl.config.responseTransformer, call.answer.data)
          /\ calledWith[2].error = Null
    /\ call.pc = "rejected" => calledWith[2].error = handleError(call.answer)

\* C27: a search() call that passes index validation calls every listener
\* subscribed for the whole call exactly twice, however many requests it
\* makes: first with loading = true and error = null, last with loading =
\* false and either the transformed response and error = null or the last
\* error; a search() rejected by index validation makes no request, calls no
\* listener and leaves the state as it was
NotifiesTwice ==
    [][\A c \in CallIds :
          LET call == client'.calls[c]
          IN /\ call.posts > 0 =>
                   \A l \in call.audience : HeardInOrder(client', call, client'.heard[l][c])
             /\ client.calls[c].pc = "unstarted" /\ call.pc = "rejected" =>
                   /\ call.posts = 0
                   /\ client'.state = client.state
                   /\ client'.heard = client.heard]_vars

\* A listener has heard both calls of a search() that failed after retries
HeardTwiceAfterRetries ==
    \E c \in CallIds, l \in ListenerIds :
        /\ client.calls[c].pc = "rejected"
        /\ client.calls[c].posts > 2
        /\ l \in client.calls[c].audience
        /\ Len(client.heard[l][c]) = 2

\* C30: whatever the interleaving of search() calls, loading is true while
\* a search() that passed index validation has not settled, and false when
\* none is in flight
LoadingWhileInFlight ==
    client.state.loading = (\E c \in CallIds : InFlight(client.calls[c]))

\* While no second call has been made, loading tells whether the first is
\* in flight
LoadingOfOneSearch ==
    client.calls["s2"].pc = "unstarted" => LoadingWhileInFlight

----------------------------------------------------------------------------
(* Frame and isolation of the grouping methods *)

\* A key of query.bool in a document build() returned, undefined when the
\* query has no bool
BuiltBoolKey(built, key) ==
    IF built.query.t = "object" /\ built.query.bool.t = "object"
    THEN built.query.bool[key]
    ELSE Undef

\* The clauses of a section of a document build() returned
BuiltSection(built, section) ==
    IF BuiltBoolKey(built, section).t = "array"
    THEN BuiltBoolKey(built, section).v
    ELSE <<>>

\* The key of the query other than bool in a document build() returned
BuiltNamed(built) ==
    IF built.query.t = "object" THEN built.query.named ELSE Undef

\* What build() returns for the live document, with the match_all that
\* build() puts in the place of a bool wrapper left without a key read as
\* that wrapper
BuiltOrEmptyBool(doc, heap) ==
    IF IsBoolWrapper(doc, heap) /\ Built(doc, heap).query = MatchAll
    THEN [Built(doc, heap) EXCEPT
             !.query = QueryObject(Undef, [k \in BoolKeys \cup {"t"} |->
                                              IF k = "t" THEN "object" ELSE Undef])]
    ELSE Built(doc, heap)

\* after is before but for clauses added at the end of the target section
OnlyExtends(before, after, target, added) ==
    /\ \A k \in DOMAIN before \ {"query"} : after[k] = before[k]
    /\ BuiltNamed(after) = BuiltNamed(before)
    /\ \A k \in BoolKeys \ {target} : BuiltBoolKey(after, k) = BuiltBoolKey(before, k)
    /\ BuiltSection(after, target) = BuiltSection(before, target) \o added

\* C28: in every state a successful should(cb) changes build() only by
\* extending query.bool.should, and mustNot(cb) only by extending
\* query.bool.must_not, with the must and then the filter clauses of the
\* sub-builder and nothing else of it; the other keys of the query, the other
\* sections, minimum_should_match, from, size, sort and aggs are as before,
\* and build() is wholly as before when cb added no must or filter clause
GroupFrame ==
    [][(last'.method \in {"should", "mustNot"} /\ last'.err = NoError) =>
          LET b == last'.b
              sub == RunCallback(NewDocument, ensureBoolQuery(docs[b], ext).ext,
                                 last'.args[1])
              added == CopiesOf(sub, "must") \o CopiesOf(sub, "filter")
          IN /\ OnlyExtends(BuiltOrEmptyBool(docs[b], ext),
                            BuiltOrEmptyBool(docs'[b], ext'),
                            TargetOf(last'.method), added)
             /\ added = <<>> => Built(docs'[b], ext') = Built(docs[b], ext)]_vars

\* The frame of C28 for the calls in which build() gives the key beside the
\* bool back, made on a query that is defined, with a callback that does not
\* take the caller's object the parent may hold
GroupFrameWhereKeyIsKept ==
    [][(/\ last'.method \in {"should", "mustNot"}
        /\ last'.err = NoError
        /\ last'.args[1] # SetsCallerQuery
        /\ QueryOf(docs[last'.b], ext).t = "object"
        /\ \/ QueryOf(docs[last'.b], ext).named.t \in {"undefined", "match_all"}
           \/ /\ Built(docs[last'.b], ext).query # MatchAll
              /\ Built(docs'[last'.b], ext').query # MatchAll) =>
          LET b == last'.b
              sub == RunCallback(NewDocument, ensureBoolQuery(docs[b], ext).ext,
                                 last'.args[1])
              added == CopiesOf(sub, "must") \o CopiesOf(sub, "filter")
          IN /\ OnlyExtends(BuiltOrEmptyBool(docs[b], ext),
                            BuiltOrEmptyBool(docs'[b], ext'),
                            TargetOf(last'.method), added)
             /\ added = <<>> => Built(docs'[b], ext') = Built(docs[b], ext)]_vars

----------------------------------------------------------------------------
(* A callback that keeps the sub-builder it is handed:                     *)
(*   let kept; parent.should(q => { kept = q; ... }); kept.match(...)      *)

EscapeInputs == {AddsNothing, AddsMatch, AddsTermAndWraps, SetsCallerQuery}

\* Builder b makes the successful call method(args), whose callback keeps the
\* sub-builder; s names that sub-builder from now on
Keeps(b, s, method, args, callback, r) ==
    /\ budget > 0
    /\ b \in alive
    /\ s \notin alive
    /\ r.err = NoError
    /\ alive' = alive \cup {s}
    /\ docs' = [docs EXCEPT
                  ![b] = r.doc,
                  ![s] = RunCallback(NewDocument, ensureBoolQuery(docs[b], ext).ext,
                                     callback).doc]
    /\ ext' = r.ext
    /\ last' = [b |-> b, method |-> method, args |-> args, err |-> r.err]
    /\ touched' = touched \cup {b}
    /\ budget' = budget - 1
    /\ UNCHANGED <<origin, client>>

KeepsShould(b, s) ==
    \E cb \in EscapeInputs : Keeps(b, s, "should", <<cb>>, cb, should(docs[b], ext, cb))

KeepsMustNot(b, s) ==
    \E cb \in EscapeInputs : Keeps(b, s, "mustNot", <<cb>>, cb, mustNot(docs[b], ext, cb))

KeepsNested(b, s) ==
    \E cb \in EscapeInputs :
        Keeps(b, s, "nested", <<FieldA, cb>>, cb, nested(docs[b], ext, FieldA, cb))

KeepsHasChild(b, s) ==
    \E cb \in EscapeInputs :
        Keeps(b, s, "hasChild", <<ValueX, cb>>, cb, hasChild(docs[b], ext, ValueX, cb))

KeepsHasParent(b, s) ==
    \E cb \in EscapeInputs :
        Keeps(b, s, "hasParent", <<ValueX, cb>>, cb, hasParent(docs[b], ext, ValueX, cb))

InitEscape ==
    /\ alive = {"b1"}
    /\ docs = [b \in BuilderIds |-> NewDocument]
    /\ ext = ExtInit
    /\ last = [b |-> "b1", method |-> "constructor", args |-> <<>>, err |-> NoError]
    /\ touched = {}
    /\ origin = [b \in BuilderIds |-> "constructor"]
    /\ budget = MaxEscapeSteps
    /\ client = NoClient

NextEscape ==
    \/ KeepsShould("b1", "b2")
    \/ KeepsMustNot("b1", "b2")
    \/ KeepsNested("b1", "b2")
    \/ KeepsHasChild("b1", "b2")
    \/ KeepsHasParent("b1", "b2")
    \/ \E b \in BuilderIds :
          \/ Match(b)
          \/ Term(b)
          \/ Size(b)
          \/ Sort(b)
          \/ SetQuery(b)
          \/ MatchAllCall(b)
          \/ FunctionScore(b)
          \/ ShouldGroup(b)
          \/ Reset(b)

SpecEscape == InitEscape /\ [][NextEscape]_vars

\* The call made last kept its sub-builder
KeptNow == alive' # alive

\* C29: the sub-builder handed to the callback of should, mustNot, nested,
\* hasChild or hasParent starts as a newly constructed builder whatever
\* the parent holds, and once the enclosing call has returned no operation on
\* the sub-builder changes what the parent builds and no operation on the
\* parent changes what the sub-builder builds
SubBuilderIsolation ==
    [][/\ KeptNow =>
             docs'["b2"] = RunCallback(NewDocument, ext, last'.args[Len(last'.args)]).doc
       /\ ~KeptNow =>
             \A b \in alive \ {last'.b} : Built(docs'[b], ext') = Built(docs[b], ext)]_vars

\* The isolation of C29 in the calls that write to no object of the caller:
\* those objects are the one way from a builder to another
IsolationApartFromCallerObjects ==
    [][/\ KeptNow =>
             docs'["b2"] = RunCallback(NewDocument, ext, last'.args[Len(last'.args)]).doc
       /\ ~KeptNow /\ ext' = ext =>
             \A b \in alive \ {last'.b} : Built(docs'[b], ext') = Built(docs[b], ext)]_vars

====
